---- MODULE Spec2Model ----
(***************************************************************************)
(* rpt-minigames-client: the servers-list status scan                      *)
(* (ServersListService, RPTL variant), the single-server checkout          *)
(* (ServerStatusService) and the services of a game room (actors, chat,    *)
(* lobby, minigame), all running on the RptlProtocolService session.       *)
(*                                                                         *)
(* A handler of the program is one synchronous call chain: the RxJS        *)
(* subjects deliver next() to their observers inside the call that emits.  *)
(* Each handler is therefore an operator from a world record to a world    *)
(* record, and an action applies one handler to the variables.             *)
(***************************************************************************)
EXTENDS Integers, Sequences, FiniteSets, TLC

VARIABLES
    currentServer,  \* ServersListService.currentServer
    steps,          \* one record per updateNext() step: its closures and subscriptions
    serversStatus,  \* arrays pushed into the serversStatus subject, oldest first
    session,        \* RptlProtocolService: the bound connection, 0 when none
    closing,        \* complete() was called on the bound connection, closure not confirmed yet
    live,           \* connections created for a step or checkout and not closed yet
    plan,           \* what the connection factory / resolver does for each step
    scanNo,         \* number of accepted update() calls
    event,          \* the operation or event handled last
    hist,           \* observations used to state the properties
    available,      \* ServerStatusService.available
    subs,           \* the open subscriptions of the checkout operations, in subscription order
    ops,            \* one record per accepted checkout(): its race and what was observed of it
    nextResponse,   \* values pushed into the nextResponse subject, oldest first
    cplan,          \* per checkout: how its connection behaves, and what the subscriber does
    rptlState,      \* RptlProtocolService: DISCONNECTED, UNREGISTERED or REGISTERED
    opened,         \* number of accepted beginSession() calls
    self,           \* RptlProtocolService: the actor of this client, uid 0 when unknown
    actors,         \* RptlProtocolService: name of every registered actor, by uid
    login,          \* the uid and name register() sent, uid 0 when it was not called
    history,        \* states pushed on the getState() stream, oldest first
    stateSubs,      \* the logging subscribers of getState(), with what each one received
    registry,       \* ActorsNameService.actorsNameRegistry
    actorsSubs,     \* open subscriptions of the getActors() stream, in subscription order
    listStep,       \* lists pushed on ActorsListService.getList() by the last operation
    listDone,       \* the getList() subject completed or errored
    order,          \* order in which the two actors services subscribed to getState()
    requestCounter, \* SerProtocolService: number of the next SERVICE REQUEST
    sentLines,      \* SERVICE REQUEST lines sent on the bound connection, oldest first
    handlers,       \* per sub-service: its subscription to serviceSubject is open
    errors,         \* number of messages pushed on SerProtocolService.getErrors()
    messages,       \* Messages pushed on ChatService.getMessages(), oldest first
    chatLines,      \* MESSAGE_FROM events received while registered, oldest first
    outStep,        \* values the sub-services pushed on their data streams in the last operation
    parserString,   \* what String() gives for the CommandParser that parseTo() returns
    inbound,        \* the line received last on the bound connection
    lobby,          \* LobbyService: players (ready or not, by uid) and currentCountdown
    minigame,       \* MinigameService.players, the white and black uids of the running game
    runtimeErrors,  \* RuntimeErrorsService: errorsUidProvider and what observe() pushed
    errorsView,     \* RuntimeErrorsComponent: displayedErrors, pendingDeletions, its subscription
    hubJson,        \* the array parsed from the JSON text given to serversFromJsonString last
    hubServers,     \* the GameServer array that serversFromJsonString returned last
    selection,      \* ServersListComponent: selectedServerName and its subscriptions awaiting DISCONNECTED
    sockets,        \* the connections rptlConnectionFor() made: isStopped, and the close frame received
    lobbyView,      \* LobbyComponent: players, startingCountdown, isPlaying and its pending ticks
    delegate,       \* ServersListService on ServerStatusService: its getNextResponse() subscribers
    hubList,        \* ServersListService on the hub: updating, responseSubscription, the connections
    chatView        \* ChatComponent: its state subscription and its messages

scanVars == <<currentServer, steps, serversStatus, session, closing, live, plan, scanNo, event, hist>>

scanVars_noEvent == <<currentServer, steps, serversStatus, session, closing, live, plan, scanNo, hist>>

checkoutVars == <<available, subs, ops, nextResponse, cplan>>

\* the data of the Lobby and Minigame sub-services
gameVars == <<lobby, minigame>>

\* the error notifications
uiVars == <<runtimeErrors, errorsView>>

\* the session and the services of the room
sessionVars ==
    <<rptlState, opened, self, actors, login, history, stateSubs, registry, actorsSubs,
      listStep, listDone, order, requestCounter, sentLines, handlers, errors, messages,
      chatLines, outStep, parserString, inbound, gameVars>>

\* the servers list received from the hub
hubVars == <<hubJson, hubServers>>

\* the other variants of ServersListService and the other components
extraVars == <<delegate, hubList>>

roomVars == <<sessionVars, uiVars, hubVars, selection, sockets, lobbyView, chatView, extraVars>>

\* what the room leaves alone: the scan and the checkout
baseIdleVars ==
    <<currentServer, steps, serversStatus, plan, scanNo, hist, available, subs, ops,
      nextResponse, cplan, uiVars, hubVars, sockets, extraVars>>

scanIdleVars == <<baseIdleVars, lobbyView, chatView>>

idleVars == <<scanIdleVars, closing, selection>>

serVars == <<requestCounter, sentLines, handlers, errors, messages, chatLines>>

\* what a sub-service operation leaves alone in RptlProtocolService and in the
\* actors services
rptlVars ==
    <<session, live, rptlState, opened, self, actors, login, history, stateSubs, registry,
      actorsSubs, listDone, order>>

vars == <<scanVars, checkoutVars, roomVars>>

-----------------------------------------------------------------------------
(* Bounds *)
NumServers == 2
MaxSteps == 4
MaxAvail == 2
MaxCheckouts == 2
MaxUid == 2
MaxSessions == 2
MaxStateSubs == 1
MaxSends == 2
MaxChat == 2
MaxErrors == 3
MaxHubServers == 2
MaxSelections == 2
MaxSockets == 2
MaxTicks == 2
MaxUpdates == 2
MaxPublished == 2

(* Values *)
Undef == 0
NoServer == 0 - 1
NaN == 0 - 2
NoActor == [uid |-> 0, name |-> ""]
NoRegistry == [defined |-> FALSE, names |-> <<>>]
NoLine == [cmd |-> "none"]
NoCountdown == [defined |-> FALSE, delayMs |-> 0]
NoPlayers == [defined |-> FALSE, white |-> 0, black |-> 0]
NoLobby == [players |-> <<>>, countdown |-> NoCountdown]
NoErrors == [errorsUidProvider |-> 0, observed |-> <<>>, occurred |-> <<>>]
NoHide == [uid |-> 0 - 1, throws |-> ""]
NoView == [displayedErrors |-> <<>>, pendingDeletions |-> <<>>, subscription |-> "none",
           hidden |-> NoHide]
NoLobbyView == [subscription |-> "none", players |-> <<>>, startingCountdown |-> NoCountdown,
                isPlaying |-> FALSE, ticks |-> <<>>]
NoDelegate == [handlers |-> <<>>, checkouts |-> 0, busy |-> FALSE]
NoHubList ==
    [updating |-> FALSE, responseSubscription |-> 0, subs |-> <<>>, errored |-> {},
     completed |-> {}, published |-> <<>>, reported |-> 0, current |-> 0, lastConn |-> 0]
NoChatView == [stateSubscription |-> "none", since |-> 0, leaked |-> 0, from |-> 0, messages |-> <<>>]
NoCloseEvent == [code |-> 0, reason |-> ""]
NoSelection == [selectedServerName |-> "", minigameType |-> "", sessionEnd |-> <<>>,
                alreadyConnected |-> FALSE]
Services == {"Chat", "Lobby", "Minigame"}

\* the room services before any session: constructed, nothing received
RoomIdle ==
    /\ rptlState = "DISCONNECTED"
    /\ opened = 0
    /\ self = NoActor
    /\ actors = <<>>
    /\ login = NoActor
    /\ history = <<>>
    /\ stateSubs = <<>>
    /\ registry = NoRegistry
    /\ actorsSubs = <<>>
    /\ listStep = <<>>
    /\ listDone = FALSE
    /\ order = <<"name", "list">>
    /\ requestCounter = 0
    /\ sentLines = <<>>
    /\ handlers = [s \in Services |-> TRUE]
    /\ errors = 0
    /\ messages = <<>>
    /\ chatLines = <<>>
    /\ outStep = <<>>
    /\ parserString = "object"
    /\ inbound = NoLine
    /\ lobby = NoLobby
    /\ minigame = NoPlayers
    /\ runtimeErrors = NoErrors
    /\ errorsView = NoView
    /\ hubJson = <<>>
    /\ hubServers = <<>>
    /\ selection = NoSelection
    /\ sockets = <<>>
    /\ lobbyView = NoLobbyView
    /\ delegate = NoDelegate
    /\ hubList = NoHubList
    /\ chatView = NoChatView

Avail == 1..MaxAvail
Modes == {"sync", "async", "stopped", "nofactory", "badresolve"}
UIDs == 1..MaxUid
Names == {"a", "b"}

-----------------------------------------------------------------------------
(* The world record the handlers work on *)
World ==
    [cs |-> currentServer, steps |-> steps, pub |-> serversStatus, session |-> session,
         closing |-> closing, live |-> live, plan |-> plan, scan |-> scanNo,
         exc |-> FALSE, over |-> FALSE, hist |-> hist]

Commit(w) ==
    /\ ~w.over
    /\ currentServer' = w.cs
    /\ steps' = w.steps
    /\ serversStatus' = w.pub
    /\ session' = w.session
    /\ closing' = w.closing
    /\ live' = w.live
    /\ scanNo' = w.scan
    /\ hist' = w.hist
    /\ plan' = plan
    /\ UNCHANGED <<checkoutVars, roomVars>>

-----------------------------------------------------------------------------
(* Helpers on step records *)
Min(a, b) == IF a < b THEN a ELSE b

SetStep(w, i, f, v) == [w EXCEPT !.steps[i][f] = v]

\* the GameServer built at servers-list.service.ts:81
GameServer(srv, status) == [srv |-> srv, status |-> status]

\* the environment's view of what server `i` finally answered (first event wins)
SetTruth(w, i, v) ==
    IF i \in 1..Len(w.steps) /\ w.steps[i].truth = NoServer
    THEN SetStep(w, i, "truth", v) ELSE w

NewStep(w, acc) ==
    [srv |-> w.cs, scan |-> w.scan, acc |-> acc, outer |-> "pending", inner |-> "none",
         isess |-> 0, fired |-> 0, failed |-> FALSE, sent |-> 0, answered |-> 0, cks |-> 0,
         timedOut |-> FALSE, late |-> FALSE, truth |-> NoServer]

-----------------------------------------------------------------------------
(* RptlProtocolService and ServersListService.updateNext: the handlers call *)
(* one another re-entrantly, as the subjects deliver synchronously.         *)
RECURSIVE UpdateNext(_, _), TryConnect(_, _), OuterNext(_, _, _), RetrievedNext(_, _, _),
          EndSession(_), Reset(_), EmitDisconnected(_, _, _), EmitStatus(_, _, _, _, _), StatusEnded(_, _)

\* RptlProtocolService.isSessionRunning()
IsSessionRunning(w) == w.session # 0

\* the next() callback of race(errorOccurred, connectionDone), lines 102-118:
\* subscribes race(disconnection, serverStatus) and sends CHECKOUT.
\* Without a running session getStatus()/updateStatusFromServer() have no
\* connection to work with and the callback ends without a subscription.
ConnectionNext(w, id) ==
    IF ~IsSessionRunning(w) THEN w
    ELSE LET c == w.session
             w1 == [w EXCEPT !.steps[id].inner = "pending", !.steps[id].isess = c,
                             !.steps[id].cks = 1]
         IN [w1 EXCEPT !.steps[c].sent = Min(@ + 1, 2)]

\* the catch block, lines 122-133
CatchBlock(w, id, raceSubscribed) ==
    LET w1 == SetTruth(SetStep(w, id, "failed", TRUE), id, Undef)
        w2 == IF raceSubscribed THEN ConnectionNext(w1, id) ELSE w1
    IN RetrievedNext(w2, id, Undef)

\* RptlProtocolService.beginSession(connection)
BeginSessionThrows(w, id) == IsSessionRunning(w) \/ w.plan[id] = "stopped"

\* the try block, lines 89-121
TryConnect(w, id) ==
    IF w.plan[id] = "nofactory" THEN CatchBlock(w, id, FALSE)
    ELSE LET w1 == [w EXCEPT !.live = IF w.plan[id] = "stopped" THEN @ ELSE @ \cup {id},
                             !.hist.beginRunning = @ \/ IsSessionRunning(w)]
         IN IF BeginSessionThrows(w1, id) THEN CatchBlock(w1, id, TRUE)
            ELSE ConnectionNext([w1 EXCEPT !.session = id, !.closing = FALSE], id)

\* ServersListService.updateNext, lines 55-135
UpdateNext(w, acc) ==
    IF w.over THEN w
    ELSE IF w.cs = NumServers
    THEN [w EXCEPT !.cs = NoServer,
                   !.pub = Append(@, [arr |-> acc, scan |-> w.scan])]
    ELSE IF w.cs \in {NoServer, NaN}
    THEN \* (undefined as number)++ leaves NaN; servers[NaN] is undefined, reading .port throws
         [w EXCEPT !.cs = NaN, !.exc = TRUE]
    ELSE IF Len(w.steps) >= MaxSteps THEN [w EXCEPT !.over = TRUE]
    ELSE LET id == Len(w.steps) + 1
             w1 == [w EXCEPT !.cs = @ + 1, !.steps = Append(@, NewStep(w, acc))]
         IN IF w.plan[id] = "badresolve"
            THEN \* urlProvider.resolve() throws at line 65, before any subscription
                 [SetTruth(SetStep(SetStep(w1, id, "outer", "dead"), id, "failed", TRUE), id, Undef)
                    EXCEPT !.exc = TRUE]
            ELSE TryConnect(w1, id)

\* the next() callback of race(timeout, retrievedStatus), lines 74-84; an error
\* thrown inside it is swallowed by the subscriber, which unsubscribes itself
OuterNext(w, i, v) ==
    LET s == w.steps[i]
        w0 == [w EXCEPT !.steps[i].fired = Min(@ + 1, 2)]
        w1 == IF IsSessionRunning(w0) THEN EndSession(w0) ELSE w0
        w2 == UpdateNext(w1, Append(s.acc, GameServer(s.srv, v)))
    IN IF w2.exc THEN [w2 EXCEPT !.exc = FALSE, !.steps[i].outer = "dead"] ELSE w2

\* retrievedStatus.next(v): race() forwards every value of the source that emitted first
RetrievedNext(w, i, v) ==
    IF w.steps[i].outer = "pending" THEN OuterNext(SetStep(w, i, "outer", "status"), i, v)
    ELSE IF w.steps[i].outer = "status" THEN OuterNext(w, i, v)
    ELSE w

\* RptlProtocolService.endSession(): completes the connection; a connection that
\* closes synchronously notifies the protocol inside the call
EndSession(w) ==
    IF w.plan[w.session] = "sync" THEN Reset(w) ELSE [w EXCEPT !.closing = TRUE]

\* the status stream of session c ends: the subscriptions race(disconnection,
\* serverStatus) still listening to it complete
StatusEnded(q, c) ==
    IF q = <<>> THEN <<>>
    ELSE <<IF Head(q).inner \in {"pending", "status"} /\ Head(q).isess = c
           THEN [Head(q) EXCEPT !.inner = "dead"] ELSE Head(q)>> \o StatusEnded(Tail(q), c)

\* RptlProtocolService on connection completion or error: the session is
\* forgotten, DISCONNECTED is emitted, then the session's status stream ends
Reset(w) ==
    LET c == w.session
        w1 == SetTruth([w EXCEPT !.session = 0, !.closing = FALSE, !.live = @ \ {c}], c, Undef)
        w2 == EmitDisconnected(w1, 1, Len(w1.steps))
    IN [w2 EXCEPT !.steps = StatusEnded(@, c)]

\* state.next(DISCONNECTED) to the observers subscribed when the emission starts
EmitDisconnected(w, i, n) ==
    IF i > n THEN w
    ELSE LET w1 == IF w.steps[i].inner \in {"pending", "disc"}
                   THEN RetrievedNext(SetStep(w, i, "inner", "disc"), i, Undef)
                   ELSE w
         IN EmitDisconnected(w1, i + 1, n)

\* status.next(a) of session c to the observers subscribed when the emission starts
EmitStatus(w, i, n, c, a) ==
    IF i > n THEN w
    ELSE LET s == w.steps[i]
             w1 == IF s.inner \in {"pending", "status"} /\ s.isess = c
                   THEN RetrievedNext(
                          [w EXCEPT !.steps[i].inner = "status",
                                    !.steps[i].late = @ \/ s.timedOut], i, a)
                   ELSE w
         IN EmitStatus(w1, i + 1, n, c, a)

-----------------------------------------------------------------------------
(* The servers-list scan: operations and events *)
ScanInit ==
    /\ currentServer = NoServer
    /\ steps = <<>>
    /\ serversStatus = <<>>
    /\ session = 0
    /\ closing = FALSE
    /\ live = {}
    /\ plan \in [1..MaxSteps -> Modes]
    /\ scanNo = 0
    /\ event = "none"
    /\ hist = [beginRunning |-> FALSE, reBusy |-> FALSE, pushOpen |-> FALSE]
    /\ available = TRUE
    /\ subs = <<>>
    /\ ops = <<>>
    /\ nextResponse = <<>>
    /\ cplan = <<>>
    /\ RoomIdle

\* ServersListService.isUpdating(), lines 140-142
IsUpdating == currentServer # NoServer

\* ServersListService.update() while a scan is running, lines 155-157
UpdateBusy ==
    /\ IsUpdating
    /\ event' = "busy"
    /\ UNCHANGED <<scanVars_noEvent, checkoutVars, roomVars>>

\* ServersListService.update() accepted, lines 159-161; an error thrown by the
\* first updateNext() reaches the caller
UpdateAccepted ==
    /\ ~IsUpdating
    /\ LET w == UpdateNext([World EXCEPT !.cs = 0, !.scan = @ + 1], <<>>)
       IN /\ Commit(w)
          /\ event' = IF w.exc THEN "threw" ELSE "accepted"

\* the delay operator of step i emits before retrievedStatus did, line 73
Timeout(i) ==
    /\ i \in 1..Len(steps)
    /\ steps[i].outer = "pending"
    /\ LET w0 == SetTruth([World EXCEPT !.steps[i].outer = "dead",
                                        !.steps[i].timedOut = TRUE], i, Undef)
       IN Commit(OuterNext(w0, i, Undef))
    /\ event' = "timeout"

\* the connected server answers a CHECKOUT with AVAILABILITY a
ReceiveAvailability(a) ==
    /\ session # 0
    /\ steps[session].answered < steps[session].sent
    /\ LET c == session
           w0 == SetTruth([World EXCEPT !.steps[c].answered = @ + 1], c, a)
       IN Commit(EmitStatus(w0, 1, Len(steps), c, a))
    /\ event' = IF steps[session].timedOut THEN "lateStatus" ELSE "status"

\* the connected server sends a line RPTL cannot handle: the protocol closes the connection
ReceiveGarbage ==
    /\ session # 0
    /\ ~closing
    /\ Commit(EndSession(World))
    /\ event' = "garbage"

\* the connection completes or errors without the client having asked for it
ConnectionLost ==
    /\ session # 0
    /\ ~closing
    /\ Commit(Reset(World))
    /\ event' = "lost"

\* the transport confirms the closure asked by endSession()
CloseConfirmed ==
    /\ session # 0
    /\ closing
    /\ Commit(Reset(World))
    /\ event' = "closed"

ScanNext ==
    \/ UpdateBusy
    \/ UpdateAccepted
    \/ \E i \in 1..MaxSteps : Timeout(i)
    \/ \E a \in Avail : ReceiveAvailability(a)
    \/ ReceiveGarbage
    \/ ConnectionLost
    \/ CloseConfirmed

ScanSpec == ScanInit /\ [][ScanNext]_vars

-----------------------------------------------------------------------------
(* ServerStatusService: the world record of its handlers *)
CModes == {"sync", "async", "stopped"}

CWorld ==
    [available |-> available, subs |-> subs, ops |-> ops, resp |-> nextResponse,
         session |-> session, closing |-> closing, live |-> live, cplan |-> cplan,
         hist |-> hist, over |-> FALSE]

\* closed subscriptions hold no observer any more: they are not kept
OpenSubs(q) == SelectSeq(q, LAMBDA x : x.alive)

CCommit(w) ==
    /\ ~w.over
    /\ available' = w.available
    /\ subs' = OpenSubs(w.subs)
    /\ ops' = w.ops
    /\ nextResponse' = w.resp
    /\ session' = w.session
    /\ closing' = w.closing
    /\ live' = w.live
    /\ cplan' = cplan
    /\ hist' = w.hist
    /\ UNCHANGED <<currentServer, steps, serversStatus, plan, scanNo, roomVars>>

Sub(kind, op, val, sess, inList) ==
    [kind |-> kind, op |-> op, alive |-> TRUE, inList |-> inList, val |-> val, sess |-> sess]

NewOp(mode) ==
    [mode |-> mode, winner |-> "none", sent |-> 0, answered |-> 0, truth |-> NoServer,
         ends |-> 0, waiters |-> 0]

CSetTruth(w, k, v) ==
    IF k \in 1..Len(w.ops) /\ w.ops[k].truth = NoServer
    THEN [w EXCEPT !.ops[k].truth = v] ELSE w

\* index of the race subscription (resultSub) of checkout k, 0 when it is closed
ResultSub(w, k) ==
    LET S == {j \in 1..Len(w.subs) :
                w.subs[j].kind = "result" /\ w.subs[j].op = k /\ w.subs[j].alive}
    IN IF S = {} THEN 0 ELSE CHOOSE j \in S : TRUE

RECURSIVE Checkout(_), ResultNext(_, _, _), ResultSubNext(_, _, _), Clear(_, _, _),
          CEndSession(_), CReset(_), CEmitDisconnected(_, _, _), CEmitUnregistered(_, _, _),
          CEmitStatus(_, _, _, _, _), CCompleteStatus(_, _, _, _), Unsubscribed(_)

\* the next() callback of connectedSub, lines 116-127
ConnectedNext(w, k) ==
    LET c == w.session
        w1 == [w EXCEPT !.subs = Append(@, Sub("status", k, Undef, c, TRUE))]
    IN [w1 EXCEPT !.ops[c].sent = Min(@ + 1, 2)]

\* state.next(UNREGISTERED): first(UNREGISTERED) delivers it, then completes
CEmitUnregistered(w, j, n) ==
    IF j > n THEN w
    ELSE LET w1 == IF w.subs[j].kind = "connected" /\ w.subs[j].alive
                   THEN [ConnectedNext(w, w.subs[j].op) EXCEPT !.subs[j].alive = FALSE]
                   ELSE w
         IN CEmitUnregistered(w1, j + 1, n)

\* a clear() that leaves the subscriptions of the finished checkout open
Unsubscribed_None(q) == q

\* the loop of clear(), lines 50-54: every subscription of the list is closed
\* and the list is emptied
Unsubscribed(q) ==
    IF q = <<>> THEN <<>>
    ELSE <<IF Head(q).inList THEN [Head(q) EXCEPT !.alive = FALSE, !.inList = FALSE]
           ELSE Head(q)>> \o Unsubscribed(Tail(q))

\* a clear() that pushes the result before it sets the available flag
Clear_PushFirst(w, k, v) ==
    LET w1 == [w EXCEPT !.subs = Unsubscribed(@),
                        !.resp = Append(@, [op |-> k, val |-> v]),
                        !.hist.pushOpen = @ \/ w.session # 0]
        n == Len(w1.resp)
        w2 == IF n <= Len(w1.cplan) /\ w1.cplan[n].reenter THEN Checkout(w1) ELSE w1
    IN [w2 EXCEPT !.available = TRUE]

\* ServerStatusService.clear, lines 48-58; the subscriber of getNextResponse()
\* may start the next checkout from inside its callback
Clear(w, k, v) ==
    LET w1 == [w EXCEPT !.subs = Unsubscribed(@),
                        !.available = TRUE,
                        !.resp = Append(@, [op |-> k, val |-> v]),
                        !.hist.pushOpen = @ \/ w.session # 0]
        n == Len(w1.resp)
    IN IF n <= Len(w1.cplan) /\ w1.cplan[n].reenter THEN Checkout(w1) ELSE w1

\* a race callback that finishes the checkout without the status it was given
ResultSubNext_NoStatus(w, k, v) ==
    IF w.session # 0
    THEN LET d == Len(w.subs) + 1
             w1 == [w EXCEPT !.subs = Append(@, Sub("disc", k, Undef, 0, FALSE)),
                             !.ops[k].waiters = Min(@ + 1, 2),
                             !.ops[k].ends = Min(@ + 1, 2)]
             w2 == CEndSession(w1)
         IN [w2 EXCEPT !.subs[d].inList = TRUE]
    ELSE Clear(w, k, Undef)

\* a race callback that asks for the end of the session and pushes the result
\* without waiting for DISCONNECTED
ResultSubNext_NoWait(w, k, v) ==
    IF w.session # 0
    THEN Clear(CEndSession([w EXCEPT !.ops[k].ends = Min(@ + 1, 2)]), k, v)
    ELSE Clear(w, k, v)

\* the next() callback of resultSub, lines 89-105
ResultSubNext(w, k, v) ==
    IF w.session # 0
    THEN LET d == Len(w.subs) + 1
             w1 == [w EXCEPT !.subs = Append(@, Sub("disc", k, v, 0, FALSE)),
                             !.ops[k].waiters = Min(@ + 1, 2),
                             !.ops[k].ends = Min(@ + 1, 2)]
             w2 == CEndSession(w1)
         IN [w2 EXCEPT !.subs[d].inList = TRUE]
    ELSE Clear(w, k, v)

\* result.next(v), lines 119-122 and 136: race() forwards it unless the timeout won
ResultNext(w, k, v) ==
    IF ResultSub(w, k) = 0 \/ w.ops[k].winner = "timeout" THEN w
    ELSE ResultSubNext([w EXCEPT !.ops[k].winner = "result"], k, v)

\* ServerStatusService.checkout, lines 76-138
Checkout(w) ==
    IF ~w.available THEN [w EXCEPT !.hist.reBusy = TRUE]
    ELSE IF Len(w.ops) >= Len(w.cplan) THEN [w EXCEPT !.over = TRUE]
    ELSE LET k == Len(w.ops) + 1
             mode == w.cplan[k].mode
             w1 == [w EXCEPT !.available = FALSE,
                             !.ops = Append(@, NewOp(mode)),
                             !.subs = @ \o <<Sub("result", k, Undef, 0, TRUE),
                                             Sub("connected", k, Undef, 0, TRUE)>>]
         IN IF w1.session # 0 \/ mode = "stopped"
            THEN ResultNext(CSetTruth(w1, k, Undef), k, Undef)
            ELSE CEmitUnregistered(
                   [w1 EXCEPT !.session = k, !.closing = FALSE, !.live = @ \cup {k}],
                   1, Len(w1.subs))

\* RptlProtocolService.endSession(); a session that no checkout has begun closes
\* asynchronously
CEndSession(w) ==
    IF w.session \in 1..Len(w.ops) /\ w.ops[w.session].mode = "sync"
    THEN CReset(w) ELSE [w EXCEPT !.closing = TRUE]

\* state.next(DISCONNECTED): first(DISCONNECTED) delivers it, then completes
CEmitDisconnected(w, j, n) ==
    IF j > n THEN w
    ELSE LET w1 == IF w.subs[j].kind = "disc" /\ w.subs[j].alive
                   THEN [Clear(w, w.subs[j].op, w.subs[j].val) EXCEPT !.subs[j].alive = FALSE]
                   ELSE w
         IN CEmitDisconnected(w1, j + 1, n)

\* the status stream of session c ends: first() reports the missing value as an error
CCompleteStatus(w, j, n, c) ==
    IF j > n THEN w
    ELSE LET w1 == IF w.subs[j].kind = "status" /\ w.subs[j].alive /\ w.subs[j].sess = c
                   THEN ResultNext([w EXCEPT !.subs[j].alive = FALSE], w.subs[j].op, Undef)
                   ELSE w
         IN CCompleteStatus(w1, j + 1, n, c)

\* RptlProtocolService on connection completion or error
CReset(w) ==
    LET c == w.session
        w1 == CSetTruth([w EXCEPT !.session = 0, !.closing = FALSE, !.live = @ \ {c}], c, Undef)
        w2 == CEmitDisconnected(w1, 1, Len(w1.subs))
    IN CCompleteStatus(w2, 1, Len(w2.subs), c)

\* status.next(a) of session c: first() delivers it, then completes the
\* subscriber unless the callback has unsubscribed it
CEmitStatus(w, j, n, c, a) ==
    IF j > n THEN w
    ELSE LET k == w.subs[j].op
             w1 == IF w.subs[j].kind = "status" /\ w.subs[j].alive /\ w.subs[j].sess = c
                   THEN LET x == ResultNext(w, k, a)
                        IN IF x.subs[j].alive
                           THEN ResultNext([x EXCEPT !.subs[j].alive = FALSE], k, Undef)
                           ELSE x
                   ELSE w
         IN CEmitStatus(w1, j + 1, n, c, a)

-----------------------------------------------------------------------------
(* The single-server checkout: operations and events *)
CheckoutInit ==
    /\ currentServer = NoServer
    /\ steps = <<>>
    /\ serversStatus = <<>>
    /\ session = 0
    /\ closing = FALSE
    /\ live = {}
    /\ plan = [i \in 1..MaxSteps |-> "sync"]
    /\ scanNo = 0
    /\ event = "none"
    /\ hist = [beginRunning |-> FALSE, reBusy |-> FALSE, pushOpen |-> FALSE]
    /\ available = TRUE
    /\ subs = <<>>
    /\ ops = <<>>
    /\ nextResponse = <<>>
    /\ cplan \in [1..MaxCheckouts -> [mode : CModes, reenter : BOOLEAN]]
    /\ RoomIdle

\* ServerStatusService.checkout() while a checkout is running, lines 77-79
CheckoutBusy ==
    /\ ~available
    /\ event' = "checkoutBusy"
    /\ UNCHANGED <<scanVars_noEvent, checkoutVars, roomVars>>

\* ServerStatusService.checkout() accepted
CheckoutAccepted ==
    /\ available
    /\ CCommit(Checkout(CWorld))
    /\ event' = "checkout"

\* the delay operator of checkout k emits before result did, line 88
CheckoutTimeout(k) ==
    /\ k \in 1..Len(ops)
    /\ ResultSub(CWorld, k) # 0
    /\ ops[k].winner = "none"
    /\ LET j == ResultSub(CWorld, k)
           w0 == CSetTruth([CWorld EXCEPT !.ops[k].winner = "timeout"], k, Undef)
           w1 == ResultSubNext(w0, k, Undef)
       IN CCommit([w1 EXCEPT !.subs[j].alive = FALSE])
    /\ event' = "timeout"

\* the connected server answers a CHECKOUT with AVAILABILITY a
CheckoutReceiveAvailability(a) ==
    /\ session # 0
    /\ ops[session].answered < ops[session].sent
    /\ LET c == session
           w0 == CSetTruth([CWorld EXCEPT !.ops[c].answered = @ + 1], c, a)
       IN CCommit(CEmitStatus(w0, 1, Len(subs), c, a))
    /\ event' = IF ops[session].winner = "timeout" THEN "lateStatus" ELSE "status"

\* the connected server sends a line RPTL cannot handle: the protocol closes the connection
CheckoutReceiveGarbage ==
    /\ session # 0
    /\ ~closing
    /\ CCommit(CEndSession(CWorld))
    /\ event' = "garbage"

\* the connection completes or errors without the client having asked for it
CheckoutConnectionLost ==
    /\ session # 0
    /\ ~closing
    /\ CCommit(CReset(CWorld))
    /\ event' = "lost"

\* the transport confirms the closure asked by endSession()
CheckoutCloseConfirmed ==
    /\ session # 0
    /\ closing
    /\ CCommit(CReset(CWorld))
    /\ event' = "closed"

CheckoutNext ==
    \/ CheckoutBusy
    \/ CheckoutAccepted
    \/ \E k \in 1..MaxCheckouts : CheckoutTimeout(k)
    \/ \E a \in Avail : CheckoutReceiveAvailability(a)
    \/ CheckoutReceiveGarbage
    \/ CheckoutConnectionLost
    \/ CheckoutCloseConfirmed

CheckoutSpec == CheckoutInit /\ [][CheckoutNext]_vars

\* the session of a game, begun by another user of RptlProtocolService
GameSession == MaxCheckouts + 1

\* beginSession() by the game while no checkout is running
GameBeginSession ==
    /\ available
    /\ session = 0
    /\ session' = GameSession
    /\ live' = live \cup {GameSession}
    /\ event' = "game"
    /\ UNCHANGED <<currentServer, steps, serversStatus, closing, plan, scanNo, hist,
                   checkoutVars, roomVars>>

\* the checkouts next to the session of a game
SharedNext ==
    \/ GameBeginSession
    \/ CheckoutBusy
    \/ CheckoutAccepted
    \/ \E k \in 1..MaxCheckouts : CheckoutTimeout(k)
    \/ \E a \in Avail : session # GameSession /\ CheckoutReceiveAvailability(a)
    \/ CheckoutReceiveGarbage
    \/ CheckoutConnectionLost
    \/ CheckoutCloseConfirmed

SharedSpec == CheckoutInit /\ [][SharedNext]_vars

-----------------------------------------------------------------------------
(* The actors services on the RPTL session. RptlProtocolService pushes on     *)
(* getState() and getActors() synchronously; getState() replays nothing, as   *)
(* the subscribers of this repository expect.                                 *)

RECURSIVE ParseActors(_), LineOf(_), ActorsEmit(_, _, _), StateEmit(_, _, _, _), Logged(_, _)

\* a reading of the REGISTRATION arguments that keeps the last actor only
ParseActors_LastOnly(q) ==
    IF q = <<>> THEN <<>>
    ELSE [u \in {q[Len(q)].uid} |-> q[Len(q)].name]

\* the arguments of a REGISTRATION line, uid and name by pairs, read into the
\* actors of the session
ParseActors(q) ==
    IF q = <<>> THEN <<>>
    ELSE LET rest == ParseActors(Tail(q))
         IN [u \in DOMAIN rest \cup {Head(q).uid} |->
                IF u = Head(q).uid THEN Head(q).name ELSE rest[u]]

\* the actors f written as the arguments of a line, in uid order
LineOf(f) ==
    IF DOMAIN f = {} THEN <<>>
    ELSE LET u == CHOOSE x \in DOMAIN f : \A y \in DOMAIN f : x <= y
         IN <<[uid |-> u, name |-> f[u]]>> \o LineOf([x \in DOMAIN f \ {u} |-> f[x]])

\* ActorsNameService: next() of its getActors() subscriber, lines 60-66
NameActorsNext(list) == [defined |-> TRUE, names |-> list]

\* ActorsListService: next() of its getActors() subscriber, line 43
ListActorsNext(list) == DOMAIN list

\* the getActors() subject pushes list to the subscribers q, in subscription order
ActorsEmit(r, q, list) ==
    IF q = <<>> THEN r
    ELSE ActorsEmit(IF Head(q) = "name"
                    THEN [r EXCEPT !.registry = NameActorsNext(list)]
                    ELSE [r EXCEPT !.listStep = Append(@, ListActorsNext(list))],
                    Tail(q), list)

\* RptlProtocolService.updateActorsSubscribable()
UpdateActorsSubscribable(r, list) == ActorsEmit(r, r.subs, list)

\* ActorsNameService.makeAvailable, lines 55-70
MakeAvailable(r, list) ==
    UpdateActorsSubscribable([r EXCEPT !.registry = [defined |-> TRUE, names |-> <<>>],
                                       !.subs = Append(@, "name")], list)

\* a makeUnavailable() that keeps the registry
MakeUnavailable_Keeps(r) == r

\* ActorsNameService.makeUnavailable, lines 73-75
MakeUnavailable(r) == [r EXCEPT !.registry = NoRegistry]

\* ActorsNameService: next() of its getState() subscriber, lines 43-49
NameStateNext(r, s, list) ==
    IF s = "REGISTERED" THEN MakeAvailable(r, list) ELSE MakeUnavailable(r)

\* a listenActorsList() that subscribes and does not ask for the current list
ListenActorsList_NoUpdate(r, list) == [r EXCEPT !.subs = Append(@, "list")]

\* ActorsListService.listenActorsList, lines 39-48
ListenActorsList(r, list) ==
    UpdateActorsSubscribable([r EXCEPT !.subs = Append(@, "list")], list)

\* ActorsListService: its getState() subscriber behind filter(REGISTERED), lines 28-30
ListStateNext(r, s, list) == IF s = "REGISTERED" THEN ListenActorsList(r, list) ELSE r

\* ActorsListService: its getActors() subscriber has no complete callback,
\* lines 41-44, so the end of that stream leaves the actors subject open
ListActorsComplete(done) == done

\* ActorsNameService.isAvailable, lines 80-82
IsAvailable == registry.defined

\* ActorsNameService.nameFor, lines 89-103: the name, or the error thrown
NameFor(actorUid) ==
    IF ~IsAvailable THEN "BadRptlMode"
    ELSE IF actorUid \notin DOMAIN registry.names THEN "UnknownActor"
    ELSE registry.names[actorUid]

\* a logging subscriber that keeps the last state only
StateLogNext_KeepLast(log, s) == <<s>>

\* the logging subscriber of the tests, servers-list.component.spec.ts lines 131-135
StateLogNext(log, s) == Append(log, s)

Logged(q, s) ==
    IF q = <<>> THEN <<>>
    ELSE <<[Head(q) EXCEPT !.log = StateLogNext(@, s)]>> \o Logged(Tail(q), s)

\* state.next(s): the two actors services receive it in the order they subscribed
StateEmit(r, q, s, list) ==
    IF q = <<>> THEN r
    ELSE StateEmit(IF Head(q) = "name" THEN NameStateNext(r, s, list)
                   ELSE ListStateNext(r, s, list), Tail(q), s, list)

-----------------------------------------------------------------------------
(* The sub-services on the SER protocol. SerProtocolService numbers the        *)
(* requests and hands each SERVICE EVENT to the serviceSubject of the service  *)
(* it names; a service handles it inside its subscriber callback.              *)

\* keywords of the events drawn for each sub-service, FOO being unknown to all
Keywords ==
    [Chat |-> {"MESSAGE_FROM", "FOO"}, Lobby |-> {"PLAYING", "WAITING", "FOO"},
     Minigame |-> {"STOP", "FOO"}]

\* the keywords each sub-service knows: the cases of its handleCommand
Grammar ==
    [Chat |-> {"MESSAGE_FROM"},
     Lobby |-> {"READY_PLAYER", "WAITING_FOR_PLAYER", "BEGIN_COUNTDOWN", "END_COUNTDOWN",
                "PLAYING", "WAITING"},
     Minigame |-> {"START", "STOP", "ROUND_FOR", "SQUARE_STATE", "MOVED", "PAWN_COUNTS",
                   "VICTORY_FOR"}]

\* the arguments drawn for the events of the Lobby and of the Minigame, RED
\* being no player and no square state
Delays == {0, 3000}
PlayerTokens == {"WHITE", "BLACK", "RED"}
StateTokens == {"FREE", "WHITE", "BLACK", "RED"}

\* what each sub-service sends: ChatService.send, LobbyService.toggleReady,
\* MinigameService.finishRound
Requests == [Chat |-> "hello", Lobby |-> "READY", Minigame |-> "END"]

ChatAuthors == {1, 2}

Emitted(svc, stream, val) == [svc |-> svc, stream |-> stream, val |-> val]

Message(author, content) == [author |-> author, content |-> content]

\* String(parsedCommand), chat.service.ts line 39: the conversion of the parser
\* object, which gives the keyword only if the parser class converts to it
ParsedCommandString(line) ==
    IF parserString = "command" THEN line.keyword ELSE "[object Object]"

\* ChatService.handleCommand, lines 34-48
ChatHandleCommand(line) ==
    IF ParsedCommandString(line) # "MESSAGE_FROM"
    THEN [throws |-> TRUE, out |-> <<>>]
    ELSE [throws |-> FALSE,
          out |-> <<Emitted("Chat", "messages", Message(line.author, line.text))>>]

\* an update that makes every listed actor a new player
UpdatePlayersList_AllNew(players, actorsList) == [u \in actorsList |-> FALSE]

\* LobbyService.updatePlayersList, unnamed/part_002 lines 140-159: the players
\* no longer listed leave, the new ones enter as not ready
UpdatePlayersList(players, actorsList) ==
    [u \in actorsList |-> IF u \in DOMAIN players THEN players[u] ELSE FALSE]

\* LobbyService.updatePlayersArraySubject, lines 208-210
UpdatePlayersArraySubject(players) == Emitted("Lobby", "playersArray", players)

\* the subscriber of getList() in the constructor of LobbyService, lines 66-71,
\* for the lists q pushed by one operation
RECURSIVE LobbyListNext(_, _)
LobbyListNext(r, q) ==
    IF q = <<>> THEN r
    ELSE LET players == UpdatePlayersList(r.lobby.players, Head(q))
         IN LobbyListNext([lobby |-> [r.lobby EXCEPT !.players = players],
                           out |-> Append(r.out, UpdatePlayersArraySubject(players))], Tail(q))

\* a reset that forgets the countdown only
LobbyReset_KeepsPlayers(l) ==
    [lobby |-> [l EXCEPT !.countdown = NoCountdown],
     out |-> <<Emitted("Lobby", "starting", FALSE), Emitted("Lobby", "playing", FALSE)>>]

\* LobbyService.reset, unnamed/part_002 lines 85-90
LobbyReset(l) ==
    [lobby |-> [players |-> <<>>, countdown |-> NoCountdown],
     out |-> <<Emitted("Lobby", "starting", FALSE), Emitted("Lobby", "playing", FALSE)>>]

\* LobbyService.getCurrentCountdown, lines 173-179
GetCurrentCountdown ==
    IF ~lobby.countdown.defined
    THEN [throws |-> "BadLobbyState", value |-> lobby.countdown]
    ELSE [throws |-> "", value |-> lobby.countdown]

\* READY_PLAYER and WAITING_FOR_PLAYER, lines 100-113: players[uid].isReady is
\* assigned, which throws a TypeError when uid is not a player
SetReady(l, uid, ready) ==
    IF uid \notin DOMAIN l.players
    THEN [throws |-> TRUE, out |-> <<>>, lobby |-> l]
    ELSE LET players == [l.players EXCEPT ![uid] = ready]
         IN [throws |-> FALSE, out |-> <<UpdatePlayersArraySubject(players)>>,
             lobby |-> [l EXCEPT !.players = players]]

\* a Lobby handler that takes an unknown keyword for WAITING
LobbyHandleCommand_NoDefault(l, line) ==
    IF line.keyword = "PLAYING"
    THEN [throws |-> FALSE, out |-> <<Emitted("Lobby", "playing", TRUE)>>, lobby |-> l]
    ELSE [throws |-> FALSE, out |-> <<Emitted("Lobby", "playing", FALSE)>>, lobby |-> l]

\* LobbyService.handleCommand, unnamed/part_002 lines 92-136
LobbyHandleCommand(l, line) ==
    CASE line.keyword = "READY_PLAYER" -> SetReady(l, line.uid, TRUE)
      [] line.keyword = "WAITING_FOR_PLAYER" -> SetReady(l, line.uid, FALSE)
      [] line.keyword = "BEGIN_COUNTDOWN" ->
            [throws |-> FALSE, out |-> <<Emitted("Lobby", "starting", TRUE)>>,
             lobby |-> [l EXCEPT !.countdown = [defined |-> TRUE, delayMs |-> line.delayMs]]]
      [] line.keyword = "END_COUNTDOWN" ->
            [throws |-> FALSE, out |-> <<Emitted("Lobby", "starting", FALSE)>>,
             lobby |-> [l EXCEPT !.countdown = NoCountdown]]
      [] line.keyword = "PLAYING" ->
            [throws |-> FALSE, out |-> <<Emitted("Lobby", "playing", TRUE)>>, lobby |-> l]
      [] line.keyword = "WAITING" ->
            [throws |-> FALSE, out |-> <<Emitted("Lobby", "playing", FALSE)>>, lobby |-> l]
      [] OTHER -> [throws |-> TRUE, out |-> <<>>, lobby |-> l]

\* what an observer of isRunning() is given, with what getPlayers() would
\* return to it inside its callback
Started(running, players) == [running |-> running, getPlayers |-> players]

\* SquareStateParser, minigame.service.ts lines 54-70: enumValue stays
\* undefined for any other text
SquareStateParser(state) ==
    IF state \in {"FREE", "BLACK", "WHITE"} THEN state ELSE "undefined"

\* the playerToUid converter, lines 101-113: uid stays undefined for any other
\* text, and when no players are assigned
PlayerToUid(m, player) ==
    IF ~m.defined THEN Undef
    ELSE IF player = "WHITE" THEN m.white
    ELSE IF player = "BLACK" THEN m.black
    ELSE Undef

\* MinigameService.reset, lines 138-141: false is pushed before the players
\* are forgotten
MinigameReset(m) ==
    [minigame |-> NoPlayers, out |-> <<Emitted("Minigame", "started", Started(FALSE, m))>>]

\* MinigameService.getPlayers, lines 276-282
GetPlayers ==
    IF ~minigame.defined
    THEN [throws |-> "BadMinigameState", value |-> minigame]
    ELSE [throws |-> "", value |-> minigame]

\* a START that notifies isRunning() before it assigns the players
MinigameStart_NotifiesFirst(m, line) ==
    [throws |-> FALSE, out |-> <<Emitted("Minigame", "started", Started(TRUE, m))>>,
     minigame |-> [defined |-> TRUE, white |-> line.white, black |-> line.black]]

\* START, lines 151-162
MinigameStart(m, line) ==
    LET players == [defined |-> TRUE, white |-> line.white, black |-> line.black]
    IN [throws |-> FALSE, out |-> <<Emitted("Minigame", "started", Started(TRUE, players))>>,
        minigame |-> players]

\* MinigameService.handleCommand, lines 143-221
MinigameHandleCommand(m, line) ==
    CASE line.keyword = "START" -> MinigameStart(m, line)
      [] line.keyword = "STOP" ->
            [throws |-> FALSE,
             out |-> <<Emitted("Minigame", "started", Started(FALSE, NoPlayers))>>,
             minigame |-> NoPlayers]
      [] line.keyword = "ROUND_FOR" ->
            [throws |-> FALSE,
             out |-> <<Emitted("Minigame", "currentPlayer", PlayerToUid(m, line.player))>>,
             minigame |-> m]
      [] line.keyword = "SQUARE_STATE" ->
            [throws |-> FALSE,
             out |-> <<Emitted("Minigame", "updatedSquares",
                               [lineNumber |-> line.squareLine,
                                columnNumber |-> line.squareColumn,
                                updatedState |-> SquareStateParser(line.state)])>>,
             minigame |-> m]
      [] line.keyword = "MOVED" ->
            [throws |-> FALSE,
             out |-> <<Emitted("Minigame", "movedPawns", [from |-> line.from, to |-> line.to])>>,
             minigame |-> m]
      [] line.keyword = "PAWN_COUNTS" ->
            [throws |-> FALSE,
             out |-> <<Emitted("Minigame", "pawnCounts",
                               [white |-> line.white, black |-> line.black])>>,
             minigame |-> m]
      [] line.keyword = "VICTORY_FOR" ->
            [throws |-> FALSE,
             out |-> <<Emitted("Minigame", "winner", PlayerToUid(m, line.player))>>,
             minigame |-> m]
      [] OTHER -> [throws |-> TRUE, out |-> <<>>, minigame |-> m]

\* the subscriber of serviceSubject of the service svc, with the data of the
\* two game services after it
HandleCommand(svc, line) ==
    IF svc = "Chat"
    THEN LET r == ChatHandleCommand(line)
         IN [throws |-> r.throws, out |-> r.out, lobby |-> lobby, minigame |-> minigame]
    ELSE IF svc = "Lobby"
    THEN LET r == LobbyHandleCommand(lobby, line)
         IN [throws |-> r.throws, out |-> r.out, lobby |-> r.lobby, minigame |-> minigame]
    ELSE LET r == MinigameHandleCommand(minigame, line)
         IN [throws |-> r.throws, out |-> r.out, lobby |-> lobby, minigame |-> r.minigame]

\* the subscribers of getState() of LobbyService, unnamed/part_002 lines 79-81,
\* and of MinigameService, minigame.service.ts lines 132-134: both reset when
\* DISCONNECTED is pushed
ResetsOnDisconnected ==
    LobbyReset(lobby).out \o MinigameReset(minigame).out

\* the Messages among the values pushed by an operation
RECURSIVE MessagesOf(_)
MessagesOf(q) ==
    IF q = <<>> THEN <<>>
    ELSE (IF Head(q).stream = "messages" THEN <<Head(q).val>> ELSE <<>>) \o MessagesOf(Tail(q))

\* a numbering with one counter per sub-service
NextRequestNumber_PerService(svc) ==
    Cardinality({i \in 1..Len(sentLines) : sentLines[i].svc = svc})

\* SerProtocolService: the number given to the next request of service svc
NextRequestNumber(svc) == requestCounter

\* RptlProtocolService moves to state s and pushes it on getState(); q are the
\* subscriptions of getActors() that are open at that time. The Lobby receives
\* the lists that getList() pushes, and both game services reset on DISCONNECTED
RoomEmitState(s, list, q) ==
    LET r == StateEmit([registry |-> registry, subs |-> q, listStep |-> <<>>], order, s, list)
        l == LobbyListNext([lobby |-> lobby, out |-> <<>>], r.listStep)
    IN /\ rptlState' = s
       /\ history' = Append(history, s)
       /\ stateSubs' = Logged(stateSubs, s)
       /\ registry' = r.registry
       /\ actorsSubs' = r.subs
       /\ listStep' = r.listStep
       /\ IF s = "DISCONNECTED"
          THEN /\ lobby' = LobbyReset(l.lobby).lobby
               /\ minigame' = MinigameReset(minigame).minigame
               /\ outStep' = l.out \o ResetsOnDisconnected
          ELSE /\ lobby' = l.lobby
               /\ minigame' = minigame
               /\ outStep' = l.out

\* the getActors() subject pushes the actors list
RoomEmitActors(list) ==
    LET r == ActorsEmit([registry |-> registry, subs |-> actorsSubs, listStep |-> <<>>],
                        actorsSubs, list)
        l == LobbyListNext([lobby |-> lobby, out |-> <<>>], r.listStep)
    IN /\ registry' = r.registry
       /\ actorsSubs' = r.subs
       /\ listStep' = r.listStep
       /\ lobby' = l.lobby
       /\ minigame' = minigame
       /\ outStep' = l.out

-----------------------------------------------------------------------------
(* The game room: operations and events *)
RoomInit ==
    /\ currentServer = NoServer
    /\ steps = <<>>
    /\ serversStatus = <<>>
    /\ session = 0
    /\ closing = FALSE
    /\ live = {}
    /\ plan = [i \in 1..MaxSteps |-> "sync"]
    /\ scanNo = 0
    /\ event = "none"
    /\ hist = [beginRunning |-> FALSE, reBusy |-> FALSE, pushOpen |-> FALSE]
    /\ available = TRUE
    /\ subs = <<>>
    /\ ops = <<>>
    /\ nextResponse = <<>>
    /\ cplan = <<>>
    /\ rptlState = "DISCONNECTED"
    /\ opened = 0
    /\ self = NoActor
    /\ actors = <<>>
    /\ login = NoActor
    /\ history = <<>>
    /\ stateSubs = <<>>
    /\ registry = NoRegistry
    /\ actorsSubs = <<>>
    /\ listStep = <<>>
    /\ listDone = FALSE
    /\ order \in {<<"name", "list">>, <<"list", "name">>}
    /\ requestCounter = 0
    /\ sentLines = <<>>
    /\ handlers = [s \in Services |-> TRUE]
    /\ errors = 0
    /\ messages = <<>>
    /\ chatLines = <<>>
    /\ outStep = <<>>
    /\ parserString \in {"object", "command"}
    /\ inbound = NoLine
    /\ lobby = NoLobby
    /\ minigame = NoPlayers
    /\ runtimeErrors = NoErrors
    /\ errorsView = NoView
    /\ hubJson = <<>>
    /\ hubServers = <<>>
    /\ selection = NoSelection
    /\ sockets = <<>>
    /\ lobbyView = NoLobbyView
    /\ delegate = NoDelegate
    /\ hubList = NoHubList
    /\ chatView = NoChatView

\* a beginSession() that binds the connection it is given although a session
\* is running
BeginSessionRejected_Rebinds ==
    /\ rptlState # "DISCONNECTED"
    /\ opened < MaxSessions
    /\ opened' = opened + 1
    /\ session' = opened + 1
    /\ live' = live \cup {opened + 1}
    /\ event' = "alreadyConnected"
    /\ listStep' = <<>>
    /\ outStep' = <<>>
    /\ UNCHANGED gameVars
    /\ UNCHANGED <<idleVars, serVars, rptlState, self, actors, login,
                   history, stateSubs, registry, actorsSubs, listDone, order, parserString,
                   inbound>>

\* RptlProtocolService.beginSession() while a session is running: "already connected"
BeginSessionRejected ==
    /\ rptlState # "DISCONNECTED"
    /\ event' = "alreadyConnected"
    /\ listStep' = <<>>
    /\ outStep' = <<>>
    /\ UNCHANGED gameVars
    /\ UNCHANGED <<idleVars, serVars, session, live, rptlState, opened, self, actors, login,
                   history, stateSubs, registry, actorsSubs, listDone, order, parserString,
                   inbound>>

\* RptlProtocolService.beginSession(connection) accepted
BeginSessionAccepted ==
    /\ rptlState = "DISCONNECTED"
    /\ opened < MaxSessions
    /\ opened' = opened + 1
    /\ session' = opened + 1
    /\ live' = live \cup {opened + 1}
    /\ self' = NoActor
    /\ actors' = <<>>
    /\ login' = NoActor
    /\ requestCounter' = 0
    /\ sentLines' = <<>>
    /\ inbound' = NoLine
    /\ RoomEmitState("UNREGISTERED", <<>>, actorsSubs)
    /\ event' = "beginSession"
    /\ UNCHANGED <<idleVars, handlers, errors, messages, chatLines, listDone, order,
                   parserString>>

\* RptlProtocolService.register(uid, name): sends LOGIN uid name
Register(uid, name) ==
    /\ rptlState = "UNREGISTERED"
    /\ login = NoActor
    /\ login' = [uid |-> uid, name |-> name]
    /\ event' = "register"
    /\ listStep' = <<>>
    /\ outStep' = <<>>
    /\ UNCHANGED gameVars
    /\ UNCHANGED <<idleVars, serVars, session, live, rptlState, opened, self, actors,
                   history, stateSubs, registry, actorsSubs, listDone, order, parserString,
                   inbound>>

\* the server answers LOGIN with REGISTRATION: this client and the actors
\* others, this client first or last in the line
ReceiveRegistration(others, selfFirst) ==
    /\ rptlState = "UNREGISTERED"
    /\ login # NoActor
    /\ login.uid \notin DOMAIN others
    /\ LET line == IF selfFirst THEN <<login>> \o LineOf(others)
                   ELSE LineOf(others) \o <<login>>
       IN /\ inbound' = [cmd |-> "REGISTRATION", args |-> line]
          /\ self' = login
          /\ actors' = ParseActors(line)
          /\ RoomEmitState("REGISTERED", ParseActors(line), actorsSubs)
    /\ event' = "registration"
    /\ UNCHANGED <<idleVars, serVars, session, live, opened, login, listDone, order,
                   parserString>>

\* the server announces a new actor: LOGGED_IN uid name
ReceiveLoggedIn(uid, name) ==
    /\ rptlState = "REGISTERED"
    /\ uid \notin DOMAIN actors
    /\ inbound' = [cmd |-> "LOGGED_IN", uid |-> uid, name |-> name]
    /\ actors' = [u \in DOMAIN actors \cup {uid} |-> IF u = uid THEN name ELSE actors[u]]
    /\ RoomEmitActors(actors')
    /\ event' = "loggedIn"
    /\ UNCHANGED <<idleVars, serVars, session, live, rptlState, opened, self, login,
                   history, stateSubs, listDone, order, parserString>>

\* the server announces that another actor left: LOGGED_OUT uid
ReceiveLoggedOut(uid) ==
    /\ rptlState = "REGISTERED"
    /\ uid \in DOMAIN actors
    /\ uid # self.uid
    /\ inbound' = [cmd |-> "LOGGED_OUT", uid |-> uid]
    /\ actors' = [u \in DOMAIN actors \ {uid} |-> actors[u]]
    /\ RoomEmitActors(actors')
    /\ event' = "loggedOut"
    /\ UNCHANGED <<idleVars, serVars, session, live, rptlState, opened, self, login,
                   history, stateSubs, listDone, order, parserString>>

\* the bound connection completes or errors: the session is over, and so is
\* its getActors() stream
TransportClosed(how) ==
    /\ rptlState # "DISCONNECTED"
    /\ session' = 0
    /\ live' = live \ {session}
    /\ self' = NoActor
    /\ actors' = <<>>
    /\ login' = NoActor
    /\ listDone' = IF \E j \in 1..Len(actorsSubs) : actorsSubs[j] = "list"
                   THEN ListActorsComplete(listDone) ELSE listDone
    /\ RoomEmitState("DISCONNECTED", <<>>, <<>>)
    /\ event' = how
    /\ closing' = FALSE
    /\ selection.sessionEnd = <<>>
    /\ UNCHANGED <<scanIdleVars, selection, serVars, opened, order, parserString, inbound>>

\* a closed connection whose late LOGGED_OUT line is handled as if the client
\* were still registered
ReceiveAfterClose_Handled(uid) ==
    /\ rptlState = "DISCONNECTED"
    /\ opened > 0
    /\ inbound' = [cmd |-> "LOGGED_OUT", uid |-> uid]
    /\ event' = "lateLine"
    /\ rptlState' = "REGISTERED"
    /\ history' = Append(history, "REGISTERED")
    /\ listStep' = <<>>
    /\ outStep' = <<>>
    /\ UNCHANGED gameVars
    /\ UNCHANGED <<idleVars, serVars, session, live, opened, self, actors, login,
                   stateSubs, registry, actorsSubs, listDone, order, parserString>>

\* a line written by the server before the closure reaches the client after
\* it: the closed connection delivers nothing to RptlProtocolService
ReceiveAfterClose(uid) ==
    /\ rptlState = "DISCONNECTED"
    /\ opened > 0
    /\ inbound' = [cmd |-> "LOGGED_OUT", uid |-> uid]
    /\ event' = "lateLine"
    /\ listStep' = <<>>
    /\ outStep' = <<>>
    /\ UNCHANGED gameVars
    /\ UNCHANGED <<idleVars, serVars, session, live, rptlState, opened, self, actors, login,
                   history, stateSubs, registry, actorsSubs, listDone, order, parserString>>

\* ActorsListService.updateList, lines 60-62, called while registered
UpdateList ==
    /\ rptlState = "REGISTERED"
    /\ RoomEmitActors(actors)
    /\ event' = "updateList"
    /\ UNCHANGED <<idleVars, serVars, session, live, rptlState, opened, self, actors, login,
                   history, stateSubs, listDone, order, parserString, inbound>>

\* a test subscribes its logging observer to getState()
SubscribeState ==
    /\ Len(stateSubs) < MaxStateSubs
    /\ selection.sessionEnd = <<>>
    /\ stateSubs' = Append(stateSubs, [since |-> Len(history), cur |-> rptlState, log |-> <<>>])
    /\ event' = "subscribeState"
    /\ listStep' = <<>>
    /\ outStep' = <<>>
    /\ UNCHANGED gameVars
    /\ UNCHANGED <<idleVars, serVars, session, live, rptlState, opened, self, actors, login,
                   history, registry, actorsSubs, listDone, order, parserString, inbound>>

\* an observer subscribes to ActorsListService.getList(), lines 53-55
SubscribeList ==
    /\ event # "subscribeList"
    /\ event' = "subscribeList"
    /\ listStep' = <<>>
    /\ outStep' = <<>>
    /\ UNCHANGED gameVars
    /\ UNCHANGED <<idleVars, serVars, session, live, rptlState, opened, self, actors, login,
                   history, stateSubs, registry, actorsSubs, listDone, order, parserString,
                   inbound>>

\* the session and the subscribers of its state
RoomNext ==
    \/ BeginSessionRejected
    \/ BeginSessionAccepted
    \/ \E uid \in UIDs, name \in Names : Register(uid, name)
    \/ \E P \in SUBSET UIDs : \E others \in [P -> Names] : \E selfFirst \in BOOLEAN :
          ReceiveRegistration(others, selfFirst)
    \/ \E how \in {"closed", "errored"} : TransportClosed(how)
    \/ \E uid \in UIDs : ReceiveAfterClose(uid)
    \/ SubscribeState

RoomSpec == RoomInit /\ [][RoomNext]_vars

\* the actors of the session and the two actors services
ActorsNext ==
    \/ BeginSessionAccepted
    \/ \E uid \in UIDs, name \in Names : Register(uid, name)
    \/ \E P \in SUBSET UIDs : \E others \in [P -> Names] : ReceiveRegistration(others, TRUE)
    \/ \E uid \in UIDs, name \in Names : ReceiveLoggedIn(uid, name)
    \/ \E uid \in UIDs : ReceiveLoggedOut(uid)
    \/ TransportClosed("closed")
    \/ UpdateList
    \/ SubscribeList

ActorsSpec == RoomInit /\ [][ActorsNext]_vars

-----------------------------------------------------------------------------
(* The sub-services: operations and events *)
\* a sub-service passes text to its serviceSubject while registered:
\* SERVICE REQUEST <number> <service> <text> is sent
SendRequest(svc) ==
    /\ rptlState = "REGISTERED"
    /\ Len(sentLines) < MaxSends
    /\ sentLines' = Append(sentLines,
                           [seq |-> NextRequestNumber(svc), svc |-> svc, text |-> Requests[svc]])
    /\ requestCounter' = requestCounter + 1
    /\ event' = "request"
    /\ listStep' = <<>>
    /\ outStep' = <<>>
    /\ UNCHANGED gameVars
    /\ UNCHANGED <<idleVars, rptlVars, handlers, errors, messages, chatLines, parserString,
                   inbound>>

\* a sub-service passes text to its serviceSubject while not registered: the
\* protocol refuses it
SendRejected(svc) ==
    /\ rptlState # "REGISTERED"
    /\ event' = "notRegistered"
    /\ listStep' = <<>>
    /\ outStep' = <<>>
    /\ UNCHANGED gameVars
    /\ UNCHANGED <<idleVars, rptlVars, serVars, parserString, inbound>>

\* the subscriber of serviceSubject whose next() callback threw is closed by
\* RxJS 6 (SafeSubscriber), lines 29-31 of chat.service.ts and their likes
SubscriptionsAfter(svc, throws) ==
    IF throws THEN [handlers EXCEPT ![svc] = FALSE] ELSE handlers

\* SerProtocolService reports the error of a sub-service on getErrors()
ErrorsAfter(throws) == IF throws THEN errors + 1 ELSE errors

\* SERVICE EVENT <service> <line> is received while registered and handed to
\* the subscriber of the serviceSubject of that service, if it is still open
ServiceEvent(svc, line) ==
    /\ rptlState = "REGISTERED"
    /\ line.keyword = "MESSAGE_FROM" => Len(chatLines) < MaxChat
    /\ inbound' = [cmd |-> "SERVICE EVENT", svc |-> svc, line |-> line]
    /\ chatLines' = IF svc = "Chat" /\ line.keyword = "MESSAGE_FROM"
                    THEN Append(chatLines, line) ELSE chatLines
    /\ LET res == HandleCommand(svc, line)
       IN IF handlers[svc]
          THEN /\ outStep' = res.out
               /\ messages' = messages \o MessagesOf(res.out)
               /\ handlers' = SubscriptionsAfter(svc, res.throws)
               /\ errors' = ErrorsAfter(res.throws)
               /\ lobby' = res.lobby
               /\ minigame' = res.minigame
          ELSE /\ outStep' = <<>>
               /\ UNCHANGED <<messages, handlers, errors, gameVars>>
    /\ event' = IF line.keyword \in Grammar[svc] THEN "serviceEvent" ELSE "unknownCommand"
    /\ listStep' = <<>>
    /\ UNCHANGED <<rptlVars, requestCounter, sentLines, parserString>>

\* the event is received while no component shows the Lobby
ReceiveServiceEvent(svc, line) == ServiceEvent(svc, line) /\ UNCHANGED idleVars

\* the lines drawn for service svc
LinesOf(svc) ==
    IF svc = "Chat"
    THEN {[keyword |-> "MESSAGE_FROM", author |-> a, text |-> "hi"] : a \in ChatAuthors}
         \cup {[keyword |-> "FOO"]}
    ELSE {[keyword |-> k] : k \in Keywords[svc]}

\* the events drawn for the Lobby and for the Minigame
GameLinesOf(svc) ==
    IF svc = "Lobby"
    THEN {[keyword |-> k, uid |-> u] : k \in {"READY_PLAYER", "WAITING_FOR_PLAYER"}, u \in UIDs}
         \cup {[keyword |-> "BEGIN_COUNTDOWN", delayMs |-> d] : d \in Delays}
         \cup {[keyword |-> k] : k \in {"END_COUNTDOWN", "PLAYING", "WAITING", "FOO"}}
    ELSE {[keyword |-> "START", white |-> w, black |-> b] : w \in UIDs, b \in UIDs}
         \cup {[keyword |-> k, player |-> t] : k \in {"ROUND_FOR", "VICTORY_FOR"},
                                              t \in PlayerTokens}
         \cup {[keyword |-> "SQUARE_STATE", squareLine |-> 1, squareColumn |-> 2, state |-> t] :
                  t \in StateTokens}
         \cup {[keyword |-> "MOVED", from |-> <<1, 1>>, to |-> <<2, 2>>],
               [keyword |-> "PAWN_COUNTS", white |-> 3, black |-> 4]}
         \cup {[keyword |-> k] : k \in {"STOP", "FOO"}}

\* the services constructed as in the tests: before any session
SerInit == RoomInit /\ order = <<"name", "list">>

\* the sub-services send requests, over several sessions
RequestNext ==
    \/ BeginSessionAccepted
    \/ Register(1, "a")
    \/ ReceiveRegistration(<<>>, TRUE)
    \/ TransportClosed("closed")
    \/ \E svc \in Services : SendRequest(svc)
    \/ \E svc \in Services : SendRejected(svc)

RequestSpec == SerInit /\ [][RequestNext]_vars

\* the sub-services receive events, over several sessions
EventNext ==
    \/ BeginSessionAccepted
    \/ Register(1, "a")
    \/ ReceiveRegistration(<<>>, TRUE)
    \/ TransportClosed("closed")
    \/ \E svc \in Services : \E line \in LinesOf(svc) : ReceiveServiceEvent(svc, line)

EventSpec == SerInit /\ [][EventNext]_vars

\* the game services constructed before any session
GameInit == SerInit /\ parserString = "command"

\* the Lobby receives events and actor lists, over several sessions
LobbyNext ==
    \/ BeginSessionAccepted
    \/ Register(1, "a")
    \/ \E P \in SUBSET UIDs : ReceiveRegistration([u \in P |-> "b"], TRUE)
    \/ \E uid \in UIDs : ReceiveLoggedIn(uid, "b")
    \/ \E uid \in UIDs : ReceiveLoggedOut(uid)
    \/ TransportClosed("closed")
    \/ \E line \in GameLinesOf("Lobby") : ReceiveServiceEvent("Lobby", line)

LobbySpec == GameInit /\ [][LobbyNext]_vars

\* the Minigame receives events, over several sessions
MinigameNext ==
    \/ BeginSessionAccepted
    \/ Register(1, "a")
    \/ ReceiveRegistration(<<>>, TRUE)
    \/ TransportClosed("closed")
    \/ \E line \in GameLinesOf("Minigame") : ReceiveServiceEvent("Minigame", line)

MinigameSpec == GameInit /\ [][MinigameNext]_vars

-----------------------------------------------------------------------------
(* The Lobby shown by LobbyComponent: its subscribers receive what the Lobby  *)
(* service pushes inside the operation that pushes it; each startCountdown()  *)
(* leaves one delayed tick, and the ticks elapse in the order they were made. *)
COUNTDOWN_STEP_DURATION_MS == 1000

\* LobbyComponent.startCountdown: the assignment and the delayed subscription
StartCountdown(v, remainingDurationMs) ==
    [v EXCEPT !.startingCountdown = [defined |-> TRUE, delayMs |-> remainingDurationMs],
              !.ticks = Append(@, remainingDurationMs)]

\* LobbyComponent.stopCountdown
StopCountdown(v) == [v EXCEPT !.startingCountdown = NoCountdown]

\* the three subscribers set by LobbyComponent.ngOnInit, for one value pushed;
\* countdown is what getCurrentCountdown() returns inside the callback
LobbyViewNext(v, pushed, countdown) ==
    IF pushed.svc # "Lobby" THEN v
    ELSE CASE pushed.stream = "playersArray" -> [v EXCEPT !.players = pushed.val]
           [] pushed.stream = "playing" -> [v EXCEPT !.isPlaying = pushed.val]
           [] pushed.stream = "starting" ->
                 IF pushed.val THEN StartCountdown(v, countdown.delayMs) ELSE StopCountdown(v)
           [] OTHER -> v

RECURSIVE LobbyViewNexts(_, _, _)
LobbyViewNexts(v, q, countdown) ==
    IF q = <<>> THEN v
    ELSE LobbyViewNexts(LobbyViewNext(v, Head(q), countdown), Tail(q), countdown)

\* LobbyComponent.ngOnInit while registered: the fields are reset, the three
\* subscriptions are made, and updateList() makes the Lobby push its players
LobbyNgOnInit ==
    /\ rptlState = "REGISTERED"
    /\ lobbyView.subscription = "none"
    /\ RoomEmitActors(actors)
    /\ lobbyView' = LobbyViewNexts([lobbyView EXCEPT !.subscription = "open",
                                                     !.startingCountdown = NoCountdown,
                                                     !.isPlaying = FALSE],
                                   outStep', lobby'.countdown)
    /\ event' = "lobbyNgOnInit"
    /\ UNCHANGED <<baseIdleVars, chatView, closing, selection, serVars, session, live, rptlState, opened,
                   self, actors, login, history, stateSubs, listDone, order, parserString,
                   inbound>>

\* a Lobby event is received while the component shows the Lobby
ReceiveLobbyEventShown(line) ==
    /\ lobbyView.subscription = "open"
    /\ line.keyword = "BEGIN_COUNTDOWN" => Len(lobbyView.ticks) < MaxTicks
    /\ ServiceEvent("Lobby", line)
    /\ lobbyView' = LobbyViewNexts(lobbyView, outStep', lobby'.countdown)
    /\ UNCHANGED <<baseIdleVars, chatView, closing, selection>>

\* the oldest delayed tick elapses: the callback of startCountdown()
CountdownTick ==
    /\ lobbyView.ticks # <<>>
    /\ LET newRemainingDuration == Head(lobbyView.ticks) - COUNTDOWN_STEP_DURATION_MS
           v == [lobbyView EXCEPT !.ticks = Tail(@)]
       IN lobbyView' = IF newRemainingDuration >= 0
                       THEN StartCountdown(v, newRemainingDuration) ELSE v
    /\ event' = "tick"
    /\ listStep' = <<>>
    /\ outStep' = <<>>
    /\ UNCHANGED gameVars
    /\ UNCHANGED <<baseIdleVars, chatView, closing, selection, serVars, session, live, rptlState, opened,
                   self, actors, login, history, stateSubs, registry, actorsSubs, listDone,
                   order, parserString, inbound>>

CountdownNext ==
    \/ BeginSessionAccepted
    \/ Register(1, "a")
    \/ ReceiveRegistration(<<>>, TRUE)
    \/ LobbyNgOnInit
    \/ \E line \in GameLinesOf("Lobby") : ReceiveLobbyEventShown(line)
    \/ CountdownTick

CountdownSpec == GameInit /\ [][CountdownNext]_vars

-----------------------------------------------------------------------------
(* The Chat shown by ChatComponent (unnamed/part_007): the subscriber of       *)
(* getState() subscribes to getMessages() each time REGISTERED is pushed.      *)

\* the number of times s occurs in q
RECURSIVE Occurrences(_, _)
Occurrences(q, s) ==
    IF q = <<>> THEN 0 ELSE (IF Head(q) = s THEN 1 ELSE 0) + Occurrences(Tail(q), s)

\* the open subscriptions to getMessages(): one per REGISTERED pushed since
\* ngOnInit, lines 58-66; after ngOnDestroy, those it did not unsubscribe
MessagesSubscriptions ==
    IF chatView.stateSubscription = "open"
    THEN Occurrences(SubSeq(history, chatView.since + 1, Len(history)), "REGISTERED")
    ELSE chatView.leaked

\* next: (msg) => this.messages.push(msg), line 63, run by n subscriptions
RECURSIVE MessagesPushed(_, _, _)
MessagesPushed(q, msg, n) ==
    IF n = 0 THEN q ELSE MessagesPushed(Append(q, msg), msg, n - 1)

\* the messages pushed by ChatService in one step reach the subscriptions
RECURSIVE ChatViewNexts(_, _, _)
ChatViewNexts(q, pushed, n) ==
    IF pushed = <<>> THEN q
    ELSE ChatViewNexts(MessagesPushed(q, Head(pushed), n), Tail(pushed), n)

\* ChatComponent.ngOnInit, lines 54-67; the component is created before the
\* client registers, so that it is listening when REGISTERED is pushed
ChatNgOnInit ==
    /\ chatView.stateSubscription = "none"
    /\ rptlState # "REGISTERED"
    /\ chatView' = [stateSubscription |-> "open", since |-> Len(history), leaked |-> 0,
                    from |-> Len(messages), messages |-> <<>>]
    /\ event' = "chatNgOnInit"
    /\ listStep' = <<>>
    /\ outStep' = <<>>
    /\ UNCHANGED gameVars
    /\ UNCHANGED <<baseIdleVars, lobbyView, closing, selection, serVars, session, live,
                   rptlState, opened, self, actors, login, history, stateSubs, registry,
                   actorsSubs, listDone, order, parserString, inbound>>

\* ChatComponent.ngOnDestroy, lines 72-75: the state subscription and the last
\* subscription to getMessages() are closed
ChatNgOnDestroy ==
    /\ chatView.stateSubscription = "open"
    /\ chatView' = [chatView EXCEPT !.stateSubscription = "closed",
                                    !.leaked = IF MessagesSubscriptions = 0 THEN 0
                                               ELSE MessagesSubscriptions - 1]
    /\ event' = "chatNgOnDestroy"
    /\ listStep' = <<>>
    /\ outStep' = <<>>
    /\ UNCHANGED gameVars
    /\ UNCHANGED <<baseIdleVars, lobbyView, closing, selection, serVars, session, live,
                   rptlState, opened, self, actors, login, history, stateSubs, registry,
                   actorsSubs, listDone, order, parserString, inbound>>

\* a Chat event is received while the component exists
ReceiveChatEventShown(line) ==
    /\ chatView.stateSubscription # "none"
    /\ ServiceEvent("Chat", line)
    /\ chatView' = [chatView EXCEPT !.messages =
                       ChatViewNexts(@, MessagesOf(outStep'), MessagesSubscriptions)]
    /\ UNCHANGED <<baseIdleVars, lobbyView, closing, selection>>

ChatViewNext ==
    \/ BeginSessionAccepted
    \/ Register(1, "a")
    \/ ReceiveRegistration(<<>>, TRUE)
    \/ TransportClosed("closed")
    \/ ChatNgOnInit
    \/ ChatNgOnDestroy
    \/ \E line \in LinesOf("Chat") : ReceiveChatEventShown(line)

ChatViewSpec == GameInit /\ [][ChatViewNext]_vars

-----------------------------------------------------------------------------
(* The selection of a game server: ServersListComponent.select. A session    *)
(* ended for a new selection closes asynchronously: the new session begins   *)
(* inside the delivery of DISCONNECTED to the subscriber select() left.      *)

\* the game of each known server, servers-list.component.ts lines 62-70
ServerMinigameTypes == ("Acores #1" :> "a") @@ ("Bermudes #2" :> "b")

\* ServersListComponent.connectWith, lines 74-97: beginSession() throws when a
\* session is running, and nothing after it is done
ConnectWith(sel, serverName, running) ==
    IF running THEN [sel EXCEPT !.alreadyConnected = TRUE]
    ELSE [sel EXCEPT !.selectedServerName = serverName,
                     !.minigameType = ServerMinigameTypes[serverName]]

\* DISCONNECTED delivered to the first(DISCONNECTED) subscribers that select()
\* left, in subscription order, lines 132-136: the first one begins a session,
\* which is running when the next ones are served
RECURSIVE SessionEndNext(_, _, _)
SessionEndNext(sel, q, running) ==
    IF q = <<>> THEN sel
    ELSE SessionEndNext(ConnectWith(sel, Head(q), running), Tail(q), TRUE)

\* ServersListComponent.select, lines 126-143
Select(serverName) ==
    /\ event' = "select"
    /\ IF session # 0
       THEN /\ Len(selection.sessionEnd) < MaxSelections
            /\ selection' = [selection EXCEPT !.sessionEnd = Append(@, serverName)]
            /\ closing' = TRUE
            /\ listStep' = <<>>
            /\ outStep' = <<>>
            /\ UNCHANGED gameVars
            /\ UNCHANGED <<scanIdleVars, serVars, session, live, rptlState, opened, self,
                           actors, login, history, stateSubs, registry, actorsSubs, listDone,
                           order, parserString, inbound>>
       ELSE /\ opened < MaxSessions
            /\ selection' = ConnectWith(selection, serverName, FALSE)
            /\ opened' = opened + 1
            /\ session' = opened + 1
            /\ live' = live \cup {opened + 1}
            /\ self' = NoActor
            /\ actors' = <<>>
            /\ login' = NoActor
            /\ requestCounter' = 0
            /\ sentLines' = <<>>
            /\ inbound' = NoLine
            /\ RoomEmitState("UNREGISTERED", <<>>, actorsSubs)
            /\ UNCHANGED <<scanIdleVars, closing, handlers, errors, messages, chatLines,
                           listDone, order, parserString>>

\* the bound connection closes while subscribers of select() wait for
\* DISCONNECTED: the state is pushed, the game services reset, and the waiting
\* subscribers run connectWith() before the push returns
TransportClosedSelecting(how) ==
    /\ rptlState # "DISCONNECTED"
    /\ selection.sessionEnd # <<>>
    /\ opened < MaxSessions
    /\ LET r1 == StateEmit([registry |-> registry, subs |-> <<>>, listStep |-> <<>>],
                           order, "DISCONNECTED", <<>>)
           l1 == LobbyListNext([lobby |-> lobby, out |-> <<>>], r1.listStep)
           r2 == StateEmit([r1 EXCEPT !.listStep = <<>>], order, "UNREGISTERED", <<>>)
           l2 == LobbyListNext([lobby |-> LobbyReset(l1.lobby).lobby,
                                out |-> l1.out \o ResetsOnDisconnected], r2.listStep)
       IN /\ rptlState' = "UNREGISTERED"
          /\ history' = history \o <<"DISCONNECTED", "UNREGISTERED">>
          /\ stateSubs' = Logged(Logged(stateSubs, "DISCONNECTED"), "UNREGISTERED")
          /\ registry' = r2.registry
          /\ actorsSubs' = r2.subs
          /\ listStep' = r1.listStep \o r2.listStep
          /\ lobby' = l2.lobby
          /\ minigame' = MinigameReset(minigame).minigame
          /\ outStep' = l2.out
    /\ selection' = SessionEndNext([selection EXCEPT !.sessionEnd = <<>>],
                                   selection.sessionEnd, FALSE)
    /\ opened' = opened + 1
    /\ session' = opened + 1
    /\ live' = (live \ {session}) \cup {opened + 1}
    /\ self' = NoActor
    /\ actors' = <<>>
    /\ login' = NoActor
    /\ requestCounter' = 0
    /\ sentLines' = <<>>
    /\ inbound' = NoLine
    /\ listDone' = IF \E j \in 1..Len(actorsSubs) : actorsSubs[j] = "list"
                   THEN ListActorsComplete(listDone) ELSE listDone
    /\ closing' = FALSE
    /\ event' = how
    /\ UNCHANGED <<scanIdleVars, handlers, errors, messages, chatLines, order, parserString>>

SelectNext ==
    \/ \E serverName \in DOMAIN ServerMinigameTypes : Select(serverName)
    \/ TransportClosed("closed")
    \/ TransportClosedSelecting("closed")
    \/ SubscribeState
    \/ Register(1, "a")
    \/ ReceiveRegistration(<<>>, TRUE)

SelectSpec == GameInit /\ [][SelectNext]_vars

-----------------------------------------------------------------------------
(* The error notifications: RuntimeErrorsService and RuntimeErrorsComponent *)
ErrorMessages == {"e1", "e2"}

\* a constructor that gives every error the same uid
RuntimeError_SameUid(r, message) ==
    [error |-> [uid |-> 0, message |-> message],
     errorsUidProvider |-> r.errorsUidProvider + 1]

\* new RuntimeError(message), runtime-errors.service.ts lines 7-18
RuntimeError(r, message) ==
    [error |-> [uid |-> r.errorsUidProvider, message |-> message],
     errorsUidProvider |-> r.errorsUidProvider + 1]

\* of<undefined>(): no argument, so an observable that pushes no value
Of(args) == args

\* of<undefined>().pipe(delay(5000)).subscribe(...), lines 81-83: the values
\* still to be pushed once the duration has elapsed, and whether it has
DelayedHiding == [queue |-> Of(<<>>), elapsed |-> FALSE]

\* a hide() that removes the error and keeps its entry of pendingDeletions
Hide_KeepsPending(v, uid) ==
    IF uid \notin DOMAIN v.pendingDeletions
    THEN [v EXCEPT !.hidden = [uid |-> uid, throws |-> "UnknownRuntimeError"]]
    ELSE [v EXCEPT !.displayedErrors = SelectSeq(@, LAMBDA err : err.uid # uid),
                   !.hidden = [uid |-> uid, throws |-> ""]]

\* RuntimeErrorsComponent.hide, runtime-errors.component.ts lines 45-59
Hide(v, uid) ==
    IF uid \notin DOMAIN v.pendingDeletions
    THEN [v EXCEPT !.hidden = [uid |-> uid, throws |-> "UnknownRuntimeError"]]
    ELSE [v EXCEPT !.pendingDeletions = [u \in DOMAIN @ \ {uid} |-> @[u]],
                   !.displayedErrors = SelectSeq(@, LAMBDA err : err.uid # uid),
                   !.hidden = [uid |-> uid, throws |-> ""]]

\* RuntimeErrorsComponent.willBeHidden, lines 67-69
WillBeHidden(uid) == uid \in DOMAIN errorsView.pendingDeletions

\* the subscriber of observe() set by ngOnInit, lines 76-84
ViewNext(v, err) ==
    [v EXCEPT !.displayedErrors = Append(@, err),
              !.pendingDeletions = [u \in DOMAIN @ \cup {err.uid} |->
                                       IF u = err.uid THEN DelayedHiding ELSE @[u]]]

\* RuntimeErrorsService.throwError, runtime-errors.service.ts lines 46-48,
\* with the subscriber of the component when it is observing
ThrowError(message) ==
    LET made == RuntimeError(runtimeErrors, message)
    IN /\ runtimeErrors' = [errorsUidProvider |-> made.errorsUidProvider,
                            observed |-> Append(runtimeErrors.observed, made.error),
                            occurred |-> Append(runtimeErrors.occurred, message)]
       /\ errorsView' = IF errorsView.subscription = "open"
                        THEN ViewNext(errorsView, made.error) ELSE errorsView

\* the application reports an error
ThrowErrorCalled(message) ==
    /\ Len(runtimeErrors.observed) < MaxErrors
    /\ ThrowError(message)
    /\ event' = "throwError"
    /\ UNCHANGED <<scanVars_noEvent, checkoutVars, sessionVars, selection, lobbyView, chatView, extraVars, sockets, hubVars>>

\* SerProtocolService pushes a message on getErrors(): the subscriber of the
\* constructor, runtime-errors.service.ts lines 38-40
SerErrorsNext(message) ==
    /\ Len(runtimeErrors.observed) < MaxErrors
    /\ ThrowError(message)
    /\ event' = "serError"
    /\ UNCHANGED <<scanVars_noEvent, checkoutVars, sessionVars, selection, lobbyView, chatView, extraVars, sockets, hubVars>>

\* RuntimeErrorsComponent.ngOnInit, lines 74-86
NgOnInit ==
    /\ errorsView.subscription = "none"
    /\ errorsView' = [errorsView EXCEPT !.subscription = "open"]
    /\ event' = "ngOnInit"
    /\ UNCHANGED <<scanVars_noEvent, checkoutVars, sessionVars, selection, lobbyView, chatView, extraVars, sockets, hubVars, runtimeErrors>>

\* RuntimeErrorsComponent.ngOnDestroy, lines 91-93
NgOnDestroy ==
    /\ errorsView.subscription = "open"
    /\ errorsView' = [errorsView EXCEPT !.subscription = "closed"]
    /\ event' = "ngOnDestroy"
    /\ UNCHANGED <<scanVars_noEvent, checkoutVars, sessionVars, selection, lobbyView, chatView, extraVars, sockets, hubVars, runtimeErrors>>

\* the user dismisses the error uid, or the application calls hide(uid)
HideCalled(uid) ==
    /\ errorsView' = Hide(errorsView, uid)
    /\ event' = "hide"
    /\ UNCHANGED <<scanVars_noEvent, checkoutVars, sessionVars, selection, lobbyView, chatView, extraVars, sockets, hubVars, runtimeErrors>>

\* the display duration of the error uid elapses: the delayed observable
\* pushes its values to next(), which calls hide(uid), and completes
RECURSIVE DelayedNext(_, _, _)
DelayedNext(v, uid, queue) ==
    IF queue = <<>> THEN v ELSE DelayedNext(Hide(v, uid), uid, Tail(queue))

DurationElapsed(uid) ==
    /\ uid \in DOMAIN errorsView.pendingDeletions
    /\ ~errorsView.pendingDeletions[uid].elapsed
    /\ LET v == DelayedNext(errorsView, uid, errorsView.pendingDeletions[uid].queue)
       IN errorsView' =
             IF uid \in DOMAIN v.pendingDeletions
             THEN [v EXCEPT !.pendingDeletions[uid].elapsed = TRUE]
             ELSE v
    /\ event' = "elapsed"
    /\ UNCHANGED <<scanVars_noEvent, checkoutVars, sessionVars, selection, lobbyView, chatView, extraVars, sockets, hubVars, runtimeErrors>>

ErrorsNext ==
    \/ \E message \in ErrorMessages : ThrowErrorCalled(message)
    \/ \E message \in ErrorMessages : SerErrorsNext(message)
    \/ NgOnInit
    \/ NgOnDestroy
    \/ \E uid \in 0..MaxErrors : HideCalled(uid)
    \/ \E uid \in 0..MaxErrors : DurationElapsed(uid)

ErrorsSpec == GameInit /\ [][ErrorsNext]_vars

-----------------------------------------------------------------------------
(* The WebSocket connections of the game servers and their close observer *)
WS_CLOSE_NORMAL == 1000

\* close codes drawn for the close frames: normal closure, going away, abnormal
CloseCodes == {1000, 1001, 1006}

\* an observer that reports every closure
ClosureObserverNext_ReportsAll(s, closeEvent) ==
    [reports |-> TRUE,
     socket |-> IF s.connection THEN [s EXCEPT !.isStopped = TRUE] ELSE s]

\* RptlWebsocketClosureObserver.next, game-server-connection.ts lines 31-41:
\* whether it calls throwError(event.reason), and the connection afterwards
ClosureObserverNext(s, closeEvent) ==
    [reports |-> closeEvent.code # WS_CLOSE_NORMAL,
     socket |-> IF s.connection THEN [s EXCEPT !.isStopped = TRUE] ELSE s]

\* RptlConnectionFactory.rptlConnectionFor, lines 76-90: the observer is
\* given the connection before the connection is returned
RptlConnectionFor ==
    /\ Len(sockets) < MaxSockets
    /\ sockets' = Append(sockets, [connection |-> TRUE, isStopped |-> FALSE,
                                   closed |-> NoCloseEvent])
    /\ event' = "rptlConnectionFor"
    /\ UNCHANGED <<scanVars_noEvent, checkoutVars, sessionVars, selection, lobbyView, chatView, extraVars, uiVars, hubVars>>

\* the error callback subscribed at lines 85-87
ConnectionError(i) ==
    /\ i \in 1..Len(sockets)
    /\ sockets[i].closed = NoCloseEvent
    /\ ~sockets[i].isStopped
    /\ sockets' = [sockets EXCEPT ![i].isStopped = TRUE]
    /\ event' = "connectionError"
    /\ UNCHANGED <<scanVars_noEvent, checkoutVars, sessionVars, selection, lobbyView, chatView, extraVars, uiVars, hubVars>>

\* the WebSocket of connection i closes: its close frame goes to the observer
CloseFrame(i, code, reason) ==
    /\ i \in 1..Len(sockets)
    /\ sockets[i].closed = NoCloseEvent
    /\ Len(runtimeErrors.observed) < MaxErrors
    /\ LET closeEvent == [code |-> code, reason |-> reason]
           n == ClosureObserverNext(sockets[i], closeEvent)
       IN /\ sockets' = [sockets EXCEPT ![i] = [n.socket EXCEPT !.closed = closeEvent]]
          /\ IF n.reports THEN ThrowError(reason) ELSE UNCHANGED uiVars
    /\ event' = "closeFrame"
    /\ UNCHANGED <<scanVars_noEvent, checkoutVars, sessionVars, selection, lobbyView, chatView, extraVars, hubVars>>

ClosureNext ==
    \/ RptlConnectionFor
    \/ \E i \in 1..MaxSockets : ConnectionError(i)
    \/ \E i \in 1..MaxSockets, code \in CloseCodes, reason \in ErrorMessages :
          CloseFrame(i, code, reason)
    \/ NgOnInit
    \/ \E message \in ErrorMessages : ThrowErrorCalled(message)

ClosureSpec == GameInit /\ [][ClosureNext]_vars

-----------------------------------------------------------------------------
(* The servers list of the hub: serversFromJsonString, game-server.ts *)
\* JSON.parse, line 106: the values a property of a parsed object can have,
\* undefined when the property is missing
JsonUndefined == [type |-> "undefined"]
JsonNull == [type |-> "null"]
JsonNumber(n) == [type |-> "number", value |-> n]
JsonString(t) == [type |-> "string", text |-> t]
JsonAvailability(currentActors, actorsLimit) ==
    [type |-> "object", currentActors |-> currentActors, actorsLimit |-> actorsLimit]

\* the values drawn for currentActors and actorsLimit, and for availability
JsonScalars == {JsonUndefined, JsonNull, JsonNumber(0), JsonString("something")}
JsonAvailabilities ==
    JsonScalars \cup {JsonAvailability(c, l) : c \in JsonScalars, l \in JsonScalars}

\* the servers drawn for the array
JsonServers ==
    {[name |-> "Bermudes #1", game |-> g, availability |-> a] :
        g \in {"b", "z"}, a \in JsonAvailabilities}

\* the arrays of at most n servers
RECURSIVE JsonArrays(_)
JsonArrays(n) ==
    IF n = 0 THEN {<<>>}
    ELSE JsonArrays(n - 1) \cup {Append(q, srv) : q \in JsonArrays(n - 1), srv \in JsonServers}

\* the typeof operator
TypeOf(v) == IF v.type = "null" THEN "object" ELSE v.type

\* a string used as a condition
Truthy(text) == text # ""

\* the property field of the availability object v
Property(v, field) ==
    IF field = "currentActors" THEN v.currentActors ELSE v.actorsLimit

\* new Availability(currentActors, actorsLimit)
Availability(currentActors, actorsLimit) ==
    [defined |-> TRUE, currentActors |-> currentActors, actorsLimit |-> actorsLimit]

NoAvailability == [defined |-> FALSE]

\* new GameServer(name, gameType, status), lines 79-93
NewGameServer(name, gameType, status) ==
    [name |-> name,
     gameName |-> CASE gameType = "a" -> "Acores"
                    [] gameType = "b" -> "Bermudes"
                    [] gameType = "c" -> "Canaries"
                    [] OTHER -> gameType,
     status |-> status]

\* the condition of lines 111-115: the last operand is the typeof string itself
MatchesAvailability(v) ==
    /\ TypeOf(v) = "object" /\ v # JsonNull
    /\ TypeOf(Property(v, "currentActors")) = "number"
    /\ Truthy(TypeOf(Property(v, "actorsLimit")))

\* serversFromJsonString, lines 104-124, on the parsed array
RECURSIVE ServersFromJsonString(_)
ServersFromJsonString(parsedServersArray) ==
    IF parsedServersArray = <<>> THEN <<>>
    ELSE LET server == Head(parsedServersArray)
             availability ==
                IF MatchesAvailability(server.availability)
                THEN Availability(server.availability.currentActors,
                                  server.availability.actorsLimit)
                ELSE NoAvailability
         IN <<NewGameServer(server.name, server.game, availability)>>
            \o ServersFromJsonString(Tail(parsedServersArray))

\* the hub connection deserializes its first message: serversFromJsonString(json)
Deserialize(json) ==
    /\ event # "deserialize"
    /\ hubJson' = json
    /\ hubServers' = ServersFromJsonString(json)
    /\ event' = "deserialize"
    /\ UNCHANGED <<scanVars_noEvent, checkoutVars, sessionVars, selection, lobbyView, chatView, extraVars, sockets, uiVars>>

HubNext == event # "deserialize" /\ \E json \in JsonArrays(MaxHubServers) : Deserialize(json)

HubSpec == GameInit /\ [][HubNext]_vars

-----------------------------------------------------------------------------
(* ServersListService delegating each step to ServerStatusService: updateNext *)
(* subscribes to getNextResponse() and calls checkout(); ServerStatusService  *)
(* answers one response per accepted checkout, inside checkout() or later.    *)

\* what one call of checkout() meets: the response arrives later, the response
\* is pushed inside checkout(), the connection factory throws, resolve() throws
DModes == {"answered", "immediate", "nofactory", "badresolve"}

DStatuses == {Undef} \cup Avail

DWorld ==
    [cs |-> currentServer, handlers |-> delegate.handlers, pub |-> serversStatus,
         available |-> available, resp |-> nextResponse,
         checkouts |-> delegate.checkouts, busy |-> delegate.busy, scan |-> scanNo,
         calls |-> 0, reupdate |-> FALSE, thrown |-> FALSE, over |-> FALSE]

DCommit(d) ==
    /\ ~d.over
    /\ currentServer' = d.cs
    /\ serversStatus' = d.pub
    /\ available' = d.available
    /\ nextResponse' = d.resp
    /\ scanNo' = d.scan
    /\ delegate' = [handlers |-> d.handlers, checkouts |-> d.checkouts, busy |-> d.busy]
    /\ UNCHANGED <<steps, session, closing, live, plan, hist, subs, ops, cplan,
                   sessionVars, uiVars, hubVars, selection, sockets, lobbyView, chatView, hubList>>

RECURSIVE DelegatedUpdateNext(_, _, _)
RECURSIVE DelegatedCheckout(_, _, _)
RECURSIVE DelegatedClear(_, _, _)
RECURSIVE DelegatedEmit(_, _, _, _, _)

\* ServersListService.updateNext (delegating variant); p[k] is what the k-th
\* step of this call chain meets; with reupdate, a getListStatus() subscriber
\* calls update() when it receives the first array of the chain
DelegatedUpdateNext(d, p, updatedStatus) ==
    IF d.over THEN d
    ELSE IF d.cs = NumServers
    THEN LET d1 == [d EXCEPT !.cs = NoServer, !.reupdate = FALSE,
                             !.pub = Append(@, [arr |-> updatedStatus, scan |-> d.scan])]
             r == DelegatedUpdateNext([d1 EXCEPT !.cs = 0, !.scan = @ + 1], p, <<>>)
         IN IF d.reupdate THEN [r EXCEPT !.thrown = FALSE] ELSE d1
    ELSE IF d.cs \in {NoServer, NaN}
    THEN [d EXCEPT !.cs = NaN, !.thrown = TRUE]      \* servers[NaN].port
    ELSE IF d.calls >= Len(p) \/ Len(d.handlers) >= MaxSteps
    THEN [d EXCEPT !.over = TRUE]
    ELSE LET k == d.calls + 1
             d1 == [d EXCEPT !.cs = @ + 1, !.calls = k]
             d2 == [d1 EXCEPT !.handlers =
                        Append(@, [srv |-> d.cs, acc |-> updatedStatus, open |-> TRUE])]
         IN IF p[k] = "badresolve" THEN [d1 EXCEPT !.thrown = TRUE]
            ELSE IF p[k] = "nofactory" THEN [d2 EXCEPT !.thrown = TRUE]
            ELSE DelegatedCheckout(d2, p, p[k] = "immediate")

\* ServerStatusService.checkout as its caller sees it
DelegatedCheckout(d, p, immediate) ==
    IF ~d.available THEN [d EXCEPT !.busy = TRUE, !.thrown = TRUE]    \* CheckoutBusy
    ELSE LET d1 == [d EXCEPT !.available = FALSE, !.checkouts = @ + 1]
         IN IF immediate THEN DelegatedClear(d1, p, Undef) ELSE d1

\* ServerStatusService.clear(operationResult)
DelegatedClear(d, p, v) ==
    LET d1 == [d EXCEPT !.available = TRUE,
                        !.resp = Append(@, [op |-> d.checkouts, val |-> v])]
    IN DelegatedEmit(d1, p, 1, Len(d1.handlers), v)

\* nextResponse.next(v) to the observers subscribed when the emission starts;
\* an observer whose next callback throws is closed
DelegatedEmit(d, p, i, n, v) ==
    IF i > n \/ d.over THEN d
    ELSE LET h == d.handlers[i]
             r == DelegatedUpdateNext(d, p, Append(h.acc, GameServer(h.srv, v)))
             d1 == IF ~h.open THEN d
                   ELSE IF r.thrown
                        THEN [r EXCEPT !.thrown = FALSE, !.handlers[i].open = FALSE]
                        ELSE r
         IN DelegatedEmit(d1, p, i + 1, n, v)

\* update() while isUpdating()
DelegatedUpdateBusy ==
    /\ IsUpdating
    /\ event' = "busy"
    /\ UNCHANGED <<scanVars_noEvent, checkoutVars, roomVars>>

\* update() accepted
DelegatedUpdate(p) ==
    /\ ~IsUpdating
    /\ LET d == DelegatedUpdateNext([DWorld EXCEPT !.cs = 0, !.scan = @ + 1], p, <<>>)
       IN /\ DCommit(d)
          /\ event' = IF d.thrown THEN "threw" ELSE "accepted"

\* the running checkout ends with v: a status, or undefined
CheckoutResponse(v, p, reupdate) ==
    /\ ~available
    /\ DCommit(DelegatedClear([DWorld EXCEPT !.reupdate = reupdate], p, v))
    /\ event' = "response"

DelegateNext ==
    \/ DelegatedUpdateBusy
    \/ \E p \in [1..NumServers -> DModes] : DelegatedUpdate(p)
    \/ \E v \in DStatuses : \E p \in [1..NumServers -> DModes] : \E reupdate \in BOOLEAN :
          CheckoutResponse(v, p, reupdate)

DelegateSpec == GameInit /\ [][DelegateNext]_vars

-----------------------------------------------------------------------------
(* ServersListService on the hub connection: update() sends a REQUEST and     *)
(* subscribes to the connection, terminate() ends the update. A connection is *)
(* a messaging subject: next() sends, receive()/error()/complete() reach the  *)
(* observers subscribed when the emission starts.                             *)

Conns == 1..MaxSockets

\* the lists the hub sends
HubLists == {<<>>, <<GameServer(0, Undef)>>}

HubWorld ==
    [updating |-> hubList.updating, responseSubscription |-> hubList.responseSubscription,
     subs |-> hubList.subs, errored |-> hubList.errored, completed |-> hubList.completed,
     published |-> hubList.published, reported |-> hubList.reported,
     current |-> hubList.current, lastConn |-> hubList.lastConn,
     thrown |-> FALSE, over |-> FALSE]

HubCommit(h) ==
    /\ ~h.over
    /\ hubList' = [updating |-> h.updating, responseSubscription |-> h.responseSubscription,
                   subs |-> h.subs, errored |-> h.errored, completed |-> h.completed,
                   published |-> h.published, reported |-> h.reported,
                   current |-> h.current, lastConn |-> h.lastConn]
    /\ UNCHANGED <<scanVars_noEvent, checkoutVars, sessionVars, uiVars, hubVars, selection,
                   sockets, lobbyView, chatView, delegate>>

\* responseSubscription?.unsubscribe(); responseSubscription = undefined, lines 223-224
Unsubscribe(h) ==
    LET n == h.responseSubscription
    IN [h EXCEPT !.subs = IF n = 0 THEN @ ELSE [@ EXCEPT ![n].open = FALSE],
                 !.responseSubscription = 0]

\* terminate() without a list, lines 216-225
TerminateWithout(h) == Unsubscribe([h EXCEPT !.updating = FALSE])

\* update(connection), lines 241-266; a stopped connection notifies the new
\* observer inside subscribe(), before responseSubscription is assigned
Update(h, connection) ==
    IF h.updating THEN [h EXCEPT !.thrown = TRUE]
    ELSE IF Len(h.subs) >= MaxUpdates THEN [h EXCEPT !.over = TRUE]
    ELSE LET n == Len(h.subs) + 1
             stopped == connection \in h.errored \cup h.completed
             h1 == [h EXCEPT !.updating = TRUE, !.current = n,
                             !.subs = Append(@, [conn |-> connection, open |-> ~stopped])]
             h2 == IF connection \in h.errored
                   THEN TerminateWithout([h1 EXCEPT !.reported = @ + 1])
                   ELSE IF connection \in h.completed THEN TerminateWithout(h1)
                   ELSE h1
         IN [h2 EXCEPT !.responseSubscription = n]

\* terminate(newServersList) called by observer i, lines 216-225; with re # 0 a
\* getListStatus() subscriber calls update() on connection re when it receives
\* the list, and the ServersListBusy it may throw stays in that subscriber
Terminate(h, i, newServersList, re) ==
    LET h1 == [h EXCEPT !.updating = FALSE,
                        !.published = Append(@, [list |-> newServersList, by |-> i,
                                                 updating |-> h.updating])]
        h2 == IF re = 0 THEN h1 ELSE [Update(h1, re) EXCEPT !.thrown = FALSE]
    IN IF Len(h.published) >= MaxPublished THEN [h EXCEPT !.over = TRUE] ELSE Unsubscribe(h2)

\* the connection delivers a list to its observers i..n
RECURSIVE ResponseNext(_, _, _, _, _, _)
ResponseNext(h, i, n, connection, serversList, re) ==
    IF i > n \/ h.over THEN h
    ELSE LET h1 == IF h.subs[i].conn = connection /\ h.subs[i].open
                   THEN Terminate(h, i, serversList, re)
                   ELSE h
         IN ResponseNext(h1, i + 1, n, connection, serversList, re)

\* the connection ends: error(err) or complete() of its observers i..n, which
\* the subject forgets
RECURSIVE ResponseEnd(_, _, _, _, _)
ResponseEnd(h, i, n, connection, how) ==
    IF i > n THEN h
    ELSE LET h1 == IF h.subs[i].conn = connection /\ h.subs[i].open
                   THEN [TerminateWithout(
                           [h EXCEPT !.reported = IF how = "errored" THEN @ + 1 ELSE @])
                            EXCEPT !.subs[i].open = FALSE]
                   ELSE h
         IN ResponseEnd(h1, i + 1, n, connection, how)

\* update() while isUpdating(): ServersListBusy
HubUpdateBusy ==
    /\ hubList.updating
    /\ event' = "busy"
    /\ UNCHANGED <<scanVars_noEvent, checkoutVars, roomVars>>

\* update(connection) accepted
HubUpdate(connection) ==
    /\ ~hubList.updating
    /\ HubCommit(Update([HubWorld EXCEPT !.lastConn = 0], connection))
    /\ event' = "accepted"

\* the hub sends a list on the connection
HubReceive(connection, serversList, re) ==
    /\ connection \notin hubList.errored \cup hubList.completed
    /\ HubCommit(ResponseNext([HubWorld EXCEPT !.lastConn = connection], 1,
                              Len(hubList.subs), connection, serversList, re))
    /\ event' = "received"

\* the connection fails or is closed
HubStopped(connection, how) ==
    /\ connection \notin hubList.errored \cup hubList.completed
    /\ LET h == [HubWorld EXCEPT !.lastConn = connection,
                                 !.errored = IF how = "errored"
                                             THEN @ \cup {connection} ELSE @,
                                 !.completed = IF how = "completed"
                                               THEN @ \cup {connection} ELSE @]
       IN HubCommit(ResponseEnd(h, 1, Len(hubList.subs), connection, how))
    /\ event' = how

HubListNext ==
    \/ HubUpdateBusy
    \/ \E connection \in Conns : HubUpdate(connection)
    \/ \E connection \in Conns, serversList \in HubLists, re \in {0} \cup Conns :
          HubReceive(connection, serversList, re)
    \/ \E connection \in Conns, how \in {"errored", "completed"} :
          HubStopped(connection, how)

HubListSpec == GameInit /\ [][HubListNext]_vars

-----------------------------------------------------------------------------
(* Properties of the servers-list scan, checked under ScanSpec *)

\* scan sc has published an array on getListStatus()
Published(sc) == \E n \in 1..Len(serversStatus) : serversStatus[n].scan = sc

\* the steps scan sc made for the server of index srv
StepsOf(sc, srv) == {i \in 1..Len(steps) : steps[i].scan = sc /\ steps[i].srv = srv}

\* C1: update() throws ServersListBusy exactly while the latest accepted scan has
\* not published its array; once the array is published update() is accepted again
C1_BusyOnlyUntilPublished ==
    IsUpdating <=> (scanNo > 0 /\ ~Published(scanNo))

\* C2: every published array holds one GameServer per configured server, in
\* configuration order, entry k carrying what server k answered in time, and
\* undefined when it timed out, closed or failed first
C2_PublishedArray ==
    \A n \in 1..Len(serversStatus) :
        LET p == serversStatus[n]
        IN /\ Len(p.arr) = NumServers
           /\ \A k \in 1..Len(p.arr) :
                /\ p.arr[k].srv = k - 1
                /\ \A i \in StepsOf(p.scan, k - 1) : p.arr[k].status = steps[i].truth

\* C3: an accepted update() always ends by publishing. A scan in progress is
\* therefore always waiting for something that can still happen: the timeout of a
\* step that has not recorded its snapshot, or the end of the running session
C3_ScanNeverStuck ==
    IsUpdating => (session # 0 \/ \E i \in 1..Len(steps) : steps[i].outer = "pending")

\* C4: a step whose address resolution, connection creation or beginSession threw
\* has recorded its (undefined) snapshot and gone on to the next server, and no
\* CHECKOUT was sent for it
C4_ThrowDoesNotBlock ==
    \A i \in 1..Len(steps) :
        steps[i].failed => (steps[i].fired >= 1 /\ steps[i].cks = 0)

\* C5: a status response arriving after the timeout of its step changes no
\* recorded snapshot and does not make the scan advance again
C5_LateStatusIgnored ==
    [][event' = "lateStatus" =>
          /\ currentServer' = currentServer
          /\ serversStatus' = serversStatus
          /\ Len(steps') = Len(steps)
          /\ \A i \in 1..Len(steps) : steps'[i].fired = steps[i].fired]_vars

\* C6: the scan never calls beginSession while a session is running, and the
\* transports of two steps are never live together
C6_OneTransportAtATime ==
    ~hist.beginRunning /\ Cardinality(live) <= 1

\* C7: the callback of a step that recorded its snapshot never acts again
C7_StepCallbacksActOnce ==
    \A i \in 1..Len(steps) : steps[i].fired < 2

-----------------------------------------------------------------------------
(* Properties of the single-server checkout, checked under CheckoutSpec *)

\* number of values pushed on getNextResponse() for checkout k
Count(k) == Cardinality({n \in 1..Len(nextResponse) : nextResponse[n].op = k})

\* C8: an accepted checkout pushes at most one value, and exactly one once a
\* status, a closure or the timeout has occurred and its session is over
C8_ExactlyOneResponse ==
    \A k \in 1..Len(ops) :
        /\ Count(k) <= 1
        /\ (ops[k].truth # NoServer /\ session # k) => Count(k) = 1

\* C8 witness: the status stream delivered a value and then completed, so the
\* race callback ran twice, the transport confirmed the disconnection and one
\* value was pushed
C8_Witness ==
    \E k \in 1..Len(ops) :
        ops[k].waiters = 2 /\ ops[k].truth \in Avail /\ session # k /\ Count(k) = 1

\* C9: the value pushed for a checkout is the Availability the server answered
\* before the timeout and before the connection ended, and undefined when the
\* timeout, the end of the connection or a throwing beginSession came first
C9_ResponseValue ==
    \A n \in 1..Len(nextResponse) : nextResponse[n].val = ops[nextResponse[n].op].truth

\* C9 witness: one checkout pushed the server's Availability, another one timed
\* out and pushed undefined
C9_Witness ==
    /\ \E n \in 1..Len(nextResponse) : nextResponse[n].val \in Avail
    /\ \E n \in 1..Len(nextResponse) :
          nextResponse[n].val = Undef /\ ops[nextResponse[n].op].winner = "timeout"

\* a checkout is running: accepted, and its value not pushed yet
CheckoutRunning == \E k \in 1..Len(ops) : Count(k) = 0

\* C10: checkout() throws CheckoutBusy exactly while an accepted checkout has not
\* pushed its value; a rejected call changes nothing; a checkout issued from
\* inside the getNextResponse() subscriber is accepted
C10_BusyExactlyWhileRunning ==
    [][/\ (available' <=> ~CheckoutRunning') /\ ~hist'.reBusy
       /\ event' = "checkoutBusy" =>
             CheckoutRunning /\ UNCHANGED <<checkoutVars, session, closing, live>>
       /\ event' = "checkout" => ~CheckoutRunning]_vars

\* C10 witness: a call is rejected while the running checkout is one that was
\* started from inside the subscriber of getNextResponse()
C10_Witness ==
    /\ event = "checkoutBusy"
    /\ Len(ops) >= 2
    /\ cplan[Len(ops) - 1].reenter
    /\ Len(nextResponse) = Len(ops) - 1

\* C11: a checkout result is pushed only while no RPTL session is running; a
\* checkout whose status or timeout arrived while its session was open has
\* called endSession(), and its result is pushed, and the service available
\* again, only once that session is over
C11_PushOnlyDisconnected ==
    /\ ~hist.pushOpen
    /\ \A k \in 1..Len(ops) :
          (ops[k].ends > 0 /\ session = k) => (Count(k) = 0 /\ ~available)

\* C11 witness: the status arrived while the session was open, endSession() was
\* called, the transport confirmed the closure in a later step and the result
\* was pushed then
C11_Witness ==
    /\ event = "closed"
    /\ \E k \in 1..Len(ops) :
          /\ ops[k].mode = "async" /\ ops[k].winner = "result" /\ ops[k].ends > 0
          /\ Count(k) = 1 /\ session # k

-----------------------------------------------------------------------------
(* Properties of the RPTL session and of the actors services, checked under RoomSpec *)

\* C12: beginSession() is accepted only in state DISCONNECTED; called in another
\* state it fails with "already connected" and leaves the state, the bound
\* connection, the identity of this client and the actors unchanged; at most one
\* connection is bound at any time
C12_AlreadyConnected ==
    /\ [](Cardinality(live) <= 1 /\ (session # 0 => live = {session}))
    /\ [][/\ event' = "alreadyConnected" =>
                /\ rptlState # "DISCONNECTED"
                /\ UNCHANGED <<rptlState, session, live, self, actors, login>>
          /\ event' = "beginSession" => rptlState = "DISCONNECTED" /\ session = 0]_vars

\* C12 witness: beginSession() was rejected while this client was registered
\* among other actors
C12_Witness ==
    /\ event = "alreadyConnected"
    /\ rptlState = "REGISTERED"
    /\ self # NoActor
    /\ Cardinality(DOMAIN actors) > 1
    /\ live = {session}


\* C13: after beginSession(), register(uid, name) and a REGISTRATION line, the
\* state is REGISTERED, this client is the actor {uid, name} it registered as,
\* and the actors are exactly this client and the actors the line lists, each
\* one under the name the line gives
C13_RegistrationIdentity ==
    event = "registration" =>
        /\ rptlState = "REGISTERED"
        /\ self = login
        /\ self.uid \in DOMAIN actors
        /\ actors[self.uid] = self.name
        /\ DOMAIN actors = {inbound.args[i].uid : i \in 1..Len(inbound.args)}
        /\ \A i \in 1..Len(inbound.args) : actors[inbound.args[i].uid] = inbound.args[i].name

\* C13 witness: the REGISTRATION line listed another actor before this client
C13_Witness ==
    /\ event = "registration"
    /\ Len(inbound.args) = 2
    /\ inbound.args[2] = login
    /\ inbound.args[1].name # login.name


\* C14: once the connection has completed or errored the state is DISCONNECTED,
\* this client's identity and the actors are cleared and no connection is bound;
\* a line that arrives afterwards changes none of this, and the state leaves
\* DISCONNECTED only by an accepted beginSession()
C14_DisconnectedUntilBegin ==
    /\ [](rptlState = "DISCONNECTED" =>
            self = NoActor /\ actors = <<>> /\ session = 0 /\ live = {})
    /\ [][/\ event' \in {"closed", "errored"} => rptlState' = "DISCONNECTED"
          /\ rptlState = "DISCONNECTED" /\ rptlState' # "DISCONNECTED" =>
                event' = "beginSession"
          /\ event' = "lateLine" =>
                UNCHANGED <<rptlState, self, actors, session, live, history>>]_vars

\* C14 witness: the connection of a registered client errored, and a LOGGED_OUT
\* line arrived afterwards
C14_Witness ==
    /\ event = "lateLine"
    /\ inbound.cmd = "LOGGED_OUT"
    /\ rptlState = "DISCONNECTED"
    /\ Len(history) >= 3
    /\ history[Len(history) - 1] = "REGISTERED"


\* the states pushed since subscriber j subscribed
PushedSince(j) == SubSeq(history, stateSubs[j].since + 1, Len(history))

-----------------------------------------------------------------------------
(* Properties of the actors services, checked under ActorsSpec *)

C20_ListFollowsActors ==
    /\ ~listDone
    /\ event = "registration" =>
          listStep # <<>> /\ \A i \in 1..Len(listStep) : listStep[i] = DOMAIN actors
    /\ event \in {"loggedIn", "loggedOut", "updateList"} => listStep = <<DOMAIN actors>>
    /\ event \notin {"registration", "loggedIn", "loggedOut", "updateList"} => listStep = <<>>

\* C20 witness: in its second session, registered among another actor, the
\* client called updateList() and the two uids were pushed once
C20_Witness ==
    /\ opened = 2
    /\ event = "updateList"
    /\ Cardinality(DOMAIN actors) = 2
    /\ listStep = <<DOMAIN actors>>

-----------------------------------------------------------------------------
(* Properties of the sub-services, checked under RequestSpec and EventSpec *)

\* C15: the SERVICE REQUEST lines sent in one session are numbered 0, 1, 2, ...
\* in the order they are sent, whatever sub-service sends them, and the
\* numbering starts at 0 again in every new session
C15_RequestNumbers ==
    \A i \in 1..Len(sentLines) : sentLines[i].seq = i - 1

\* C15 witness: in its second session the client sent two requests from two
\* different sub-services
C15_Witness ==
    /\ opened = 2
    /\ Len(sentLines) = 2
    /\ sentLines[1].svc # sentLines[2].svc
    /\ requestCounter = 2


\* the services other than the one the last received event names
OtherServices == Services \ {inbound.svc}

\* C16 as stated: an event with an unknown keyword, given to a sub-service that
\* is listening, raises one error on getErrors(), pushes nothing on the data
\* streams, leaves the connection and the state as they are, and leaves every
\* sub-service, the one it names included, handling later events
C16_UnknownCommandHarmless ==
    [][event' = "unknownCommand" /\ handlers[inbound'.svc] =>
          /\ errors' = errors + 1
          /\ outStep' = <<>>
          /\ messages' = messages
          /\ UNCHANGED <<session, live, rptlState>>
          /\ handlers' = handlers]_vars

\* C16 amended: an event with an unknown keyword, handled by a sub-service that
\* is still listening, raises one error on getErrors(), pushes nothing on the
\* data streams, leaves the connection and the state as they are and leaves the
\* other sub-services listening; the sub-service it names stops listening, and
\* an event for a sub-service that stopped listening has no effect at all
C16_UnknownCommandStopsService ==
    [][event' = "unknownCommand" =>
          /\ outStep' = <<>>
          /\ messages' = messages
          /\ UNCHANGED <<session, live, rptlState>>
          /\ \A s \in Services \ {inbound'.svc} : handlers'[s] = handlers[s]
          /\ ~handlers'[inbound'.svc]
          /\ errors' = IF handlers[inbound'.svc] THEN errors + 1 ELSE errors]_vars

\* C16 witness: Lobby received an unknown keyword while Chat and Minigame were
\* listening; the error was raised, the session is still registered and the
\* other two still listen
C16_Witness ==
    /\ event = "unknownCommand"
    /\ inbound.svc = "Lobby"
    /\ ~handlers["Lobby"]
    /\ errors = 1
    /\ rptlState = "REGISTERED"
    /\ \A s \in OtherServices : handlers[s]


\* C18: every MESSAGE_FROM <uid> <text> event received while registered has
\* pushed exactly one Message on getMessages(), with that author and that
\* content, in the order of arrival
C18_EveryChatLineOneMessage ==
    /\ Len(messages) = Len(chatLines)
    /\ \A i \in 1..Len(chatLines) :
          i <= Len(messages) =>
             messages[i] = Message(chatLines[i].author, chatLines[i].text)

-----------------------------------------------------------------------------
(* Properties of the Lobby, checked under LobbySpec *)

\* the values pushed on one stream of one sub-service among the values q
RECURSIVE ValuesOn(_, _, _)
ValuesOn(q, svc, stream) ==
    IF q = <<>> THEN <<>>
    ELSE (IF Head(q).svc = svc /\ Head(q).stream = stream THEN <<Head(q).val>> ELSE <<>>)
         \o ValuesOn(Tail(q), svc, stream)

\* C21: every step that takes the RPTL state to DISCONNECTED leaves the Lobby
\* with no player and no countdown, so that getCurrentCountdown() throws
\* BadLobbyState, and pushes false once on isStarting() and once on isPlaying()
C21_LobbyResetOnDisconnected ==
    [][rptlState # "DISCONNECTED" /\ rptlState' = "DISCONNECTED" =>
          /\ lobby'.players = <<>>
          /\ GetCurrentCountdown'.throws = "BadLobbyState"
          /\ ValuesOn(outStep', "Lobby", "starting") = <<FALSE>>
          /\ ValuesOn(outStep', "Lobby", "playing") = <<FALSE>>]_vars

\* C21 witness: the connection closed right after a BEGIN_COUNTDOWN that the
\* Lobby handled, and the Lobby has no player and no countdown
C21_Witness ==
    /\ event = "closed"
    /\ rptlState = "DISCONNECTED"
    /\ inbound.cmd = "SERVICE EVENT"
    /\ inbound.line.keyword = "BEGIN_COUNTDOWN"
    /\ handlers["Lobby"]
    /\ lobby = NoLobby

\* the READY_PLAYER or WAITING_FOR_PLAYER event that the step receives for a
\* player of the Lobby and that the service interprets
LobbyInterprets(keyword) ==
    /\ handlers["Lobby"]
    /\ event' = "serviceEvent"
    /\ inbound'.svc = "Lobby"
    /\ inbound'.line.keyword = keyword
    /\ inbound'.line.uid \in DOMAIN lobby.players

-----------------------------------------------------------------------------
(* Properties of the Minigame, checked under MinigameSpec *)

\* the Minigame event that the step receives and the service interprets: the
\* subscriber of its serviceSubject is open
Interprets(keyword) ==
    /\ handlers["Minigame"]
    /\ event' \in {"serviceEvent", "unknownCommand"}
    /\ inbound'.svc = "Minigame"
    /\ inbound'.line.keyword = keyword

\* the players that the START line received by the step assigns
StartPlayers ==
    [defined |-> TRUE, white |-> inbound'.line.white, black |-> inbound'.line.black]

BadEnumerator ==
    \/ Interprets("SQUARE_STATE") /\ inbound'.line.state \notin {"FREE", "WHITE", "BLACK"}
    \/ Interprets("ROUND_FOR") /\ inbound'.line.player \notin {"WHITE", "BLACK"}
    \/ Interprets("VICTORY_FOR") /\ inbound'.line.player \notin {"WHITE", "BLACK"}

\* C23: a SQUARE_STATE whose state is not FREE, WHITE or BLACK, and a ROUND_FOR
\* or VICTORY_FOR whose player is not WHITE or BLACK, is reported once on the
\* error stream and pushes nothing on getSquareUpdates(), getCurrentPlayer()
\* and getWinner()
C23_BadEnumeratorIsParseError ==
    [][BadEnumerator => errors' = errors + 1 /\ outStep' = <<>>]_vars

-----------------------------------------------------------------------------
(* Properties of the error notifications, checked under ErrorsSpec *)

\* C24: observe() pushed one RuntimeError for every message of getErrors() and
\* every call of throwError(), with that message and in that order, and no two
\* of the pushed errors have the same uid
C24_OneErrorEachUniqueUid ==
    /\ Len(runtimeErrors.observed) = Len(runtimeErrors.occurred)
    /\ \A i \in 1..Len(runtimeErrors.observed) :
          runtimeErrors.observed[i].message = runtimeErrors.occurred[i]
    /\ \A i, j \in 1..Len(runtimeErrors.observed) :
          i # j => runtimeErrors.observed[i].uid # runtimeErrors.observed[j].uid

\* C24 witness: three errors were pushed, the first two with the same message,
\* the last one for a message of getErrors()
C24_Witness ==
    /\ Len(runtimeErrors.observed) = 3
    /\ runtimeErrors.observed[1].message = runtimeErrors.observed[2].message
    /\ runtimeErrors.observed[3].message # runtimeErrors.observed[2].message
    /\ event = "serError"

\* C25: no error is displayed after its display duration has elapsed: it was
\* removed when the duration elapsed, unless hide() removed it before
C25_ExpiredErrorsRemoved ==
    \A i \in 1..Len(errorsView.displayedErrors) :
       LET uid == errorsView.displayedErrors[i].uid
       IN WillBeHidden(uid) => ~errorsView.pendingDeletions[uid].elapsed

\* the uids of the displayed errors, in display order
RECURSIVE UidsOf(_)
UidsOf(errs) == IF errs = <<>> THEN <<>> ELSE <<Head(errs).uid>> \o UidsOf(Tail(errs))

-----------------------------------------------------------------------------
(* Properties of the servers list of the hub, checked under HubSpec *)

\* C27: serversFromJsonString returns one GameServer per server of the array,
\* in the same order, and a server has a status exactly when its availability
\* is a non-null object whose currentActors and actorsLimit both are numbers
C27_StatusOnlyWhenWellFormed ==
    /\ Len(hubServers) = Len(hubJson)
    /\ \A i \in 1..Len(hubJson) :
          /\ hubServers[i].name = hubJson[i].name
          /\ hubServers[i].status.defined <=>
                /\ hubJson[i].availability.type = "object"
                /\ hubJson[i].availability.currentActors.type = "number"
                /\ hubJson[i].availability.actorsLimit.type = "number"

-----------------------------------------------------------------------------
(* Properties of the selection of a game server, checked under SelectSpec *)

\* C28: select() issued while a session is running ends it and begins the
\* session with the selected server only once DISCONNECTED was observed, so
\* that beginSession() is never called while a session is still running: no
\* connectWith() of the component is ever refused as already connected
C28_NeverBeginsWhileRunning == ~selection.alreadyConnected

-----------------------------------------------------------------------------
(* Properties of the lines sent by the scan, checked under ScanSpec *)

\* C29: on every connection a scan step opened and whose session began, one
\* line was sent, the CHECKOUT of that step, and nothing was sent on the
\* connection of a step whose session could not begin
C29_OneCheckoutPerScanConnection ==
    \A i \in 1..Len(steps) : steps[i].sent = IF steps[i].failed THEN 0 ELSE 1

-----------------------------------------------------------------------------
(* Properties of the close observer, checked under ClosureSpec *)

\* C30: when a connection closes, the close observer marks it as stopped in
\* every case, and one runtime error carrying the close reason is reported if
\* the close code is not 1000, and none if it is
C30_ClosureStopsAndReports ==
    [][event' = "closeFrame" =>
         \E i \in 1..Len(sockets) :
            /\ sockets[i].closed = NoCloseEvent
            /\ sockets'[i].closed # NoCloseEvent
            /\ sockets'[i].isStopped
            /\ IF sockets'[i].closed.code # 1000
               THEN /\ runtimeErrors'.occurred =
                          Append(runtimeErrors.occurred, sockets'[i].closed.reason)
                    /\ Len(runtimeErrors'.observed) = Len(runtimeErrors.observed) + 1
               ELSE runtimeErrors' = runtimeErrors]_vars

\* a normal and an abnormal closure were observed: both connections are
\* stopped and the one error reported carries the reason of the abnormal one
C30_Witness ==
    /\ event = "closeFrame"
    /\ \E i, j \in 1..Len(sockets) :
          /\ sockets[i].closed.code = 1000
          /\ sockets[j].closed.code = 1006
          /\ sockets[i].isStopped /\ sockets[j].isStopped
          /\ runtimeErrors.occurred = <<sockets[j].closed.reason>>

-----------------------------------------------------------------------------
(* Properties of the Lobby shown by LobbyComponent, checked under CountdownSpec *)

\* C32: while the component shows the Lobby, its startingCountdown is
\* undefined whenever the game is not about to start, that is whenever the
\* Lobby service holds no countdown: after END_COUNTDOWN no tick of the ended
\* countdown writes it
C32_NoCountdownUnlessStarting ==
    lobbyView.subscription = "open" /\ ~lobby.countdown.defined
        => ~lobbyView.startingCountdown.defined

-----------------------------------------------------------------------------
(* Properties of the delegating servers-list scan, checked under DelegateSpec *)

\* C33: in the ServersListService that delegates to ServerStatusService, every
\* checkout response advances the scan by one server only: one array is
\* published per scan, it has one entry per configured server in configuration
\* order, and checkout() is never called while a checkout is running
C33_OneResponseOneStep ==
    /\ ~delegate.busy
    /\ \A i \in 1..Len(serversStatus) :
          LET a == serversStatus[i].arr
          IN /\ Len(a) = NumServers
             /\ \A j \in 1..Len(a) : a[j].srv = j - 1
    /\ \A i, j \in 1..Len(serversStatus) :
          serversStatus[i].scan = serversStatus[j].scan => i = j

-----------------------------------------------------------------------------
(* Properties of the servers list on the hub connection, checked under HubListSpec *)

\* C34: each accepted update() publishes at most one list, a list is published
\* only while the service is updating (lists arriving after the update has ended
\* are not published), and an error is reported at most once per update
C34_OneListPerUpdate ==
    /\ \A i, j \in 1..Len(hubList.published) :
          hubList.published[i].by = hubList.published[j].by => i = j
    /\ \A i \in 1..Len(hubList.published) : hubList.published[i].updating
    /\ hubList.reported <= Len(hubList.subs)

\* C35: an update() issued while the previous result is being published keeps
\* its own response subscription, and once the connection it waits on has
\* answered, failed or completed the service is no longer updating
C35_ReentrantUpdateKeepsSubscription ==
    [][/\ hubList'.updating =>
             /\ hubList'.responseSubscription = hubList'.current
             /\ hubList'.subs[hubList'.current].open
       /\ (/\ hubList.updating
           /\ hubList'.lastConn # 0
           /\ hubList'.current = hubList.current
           /\ hubList.subs[hubList.current].conn = hubList'.lastConn)
          => ~hubList'.updating]_vars

-----------------------------------------------------------------------------
(* Properties of the checkouts next to the session of a game, checked under SharedSpec *)

\* C36: a checkout whose beginSession fails because a session it did not open is
\* running never calls endSession on that session: the session of the game is
\* never closing on a request of the checkout
C36_EndsOnlyOwnSessions == ~(session = GameSession /\ closing)

-----------------------------------------------------------------------------
(* Properties of repeated selections, checked under SelectSpec *)

\* C37: when DISCONNECTED is observed after one or several select() calls, one
\* session is begun and selectedServerName names the most recently selected
\* server, to which that session is bound
C37_LastSelectionWins ==
    [][selection.sessionEnd # <<>> /\ selection'.sessionEnd = <<>> =>
          /\ opened' = opened + 1
          /\ selection'.selectedServerName =
                selection.sessionEnd[Len(selection.sessionEnd)]]_vars

-----------------------------------------------------------------------------
(* Properties of the cursor of the scan, checked under ScanSpec *)

\* C38: isUpdating() is true from the acceptance of update() until the array is
\* published: the server cursor is undefined or lies between 0 and the number
\* of configured servers, and it is undefined only when no scan was accepted or
\* the latest one has published
C38_CursorWhileUpdating ==
    /\ currentServer \in {NoServer} \cup 0..NumServers
    /\ currentServer = NoServer => (scanNo = 0 \/ Published(scanNo))

-----------------------------------------------------------------------------
(* Properties of the Chat shown by ChatComponent, checked under ChatViewSpec *)

\* C40: within one lifecycle of the component, its messages are the chat
\* messages received since ngOnInit, each once and in arrival order
C40_EachMessageOnce ==
    chatView.stateSubscription = "open" =>
        chatView.messages = SubSeq(messages, chatView.from + 1, Len(messages))

-----------------------------------------------------------------------------
(* Properties of the closure asked by a checkout, checked under CheckoutSpec *)

\* C39: during one checkout endSession() is called at most once and at most one
\* disconnection waiter is registered
C39_OneEndSessionPerCheckout ==
    \A k \in 1..Len(ops) : ops[k].ends <= 1 /\ ops[k].waiters <= 1

====
